---- MODULE Spec2Model ----
(***************************************************************************)
(* Verification model of the BiometricEvaluation RecordStore tools:        *)
(*   - OrderedSet                  (tools/src/rstool/ordered_set.h)        *)
(*   - ListRecordStore maintenance (tools/src/rstool/lrs_additions.cpp)    *)
(*   - mrgrecstor                  (tools/src/mrgrecstor/mrgrecstor.cpp)   *)
(* Strings are sequences of character codes, files are sequences of bytes. *)
(***************************************************************************)
EXTENDS Integers, Sequences, FiniteSets, TLC

(***************************************************************************)
(* Bounds of the model.                                                    *)
(***************************************************************************)
NumKeys == 3
MaxBatch == 2

(***************************************************************************)
(* Characters and keys.                                                    *)
(***************************************************************************)
NL == 10
SP == 32

\* The key "f<n>", a single character that is neither NL nor SP.
Key(n) == <<96 + n>>

\* A key of the source store that ends in a blank ("f1 ").
PaddedKey == Key(1) \o <<SP>>

PlainKeys == {Key(n) : n \in 1..NumKeys}

AllKeys == PlainKeys \cup {PaddedKey}

Range(s) == {s[i] : i \in 1..Len(s)}

\* Sequences of pairwise distinct members of S, of length 0..n.
RECURSIVE DistinctSeqs(_, _)
DistinctSeqs(S, n) ==
    IF n = 0 THEN {<<>>}
    ELSE LET shorter == DistinctSeqs(S, n - 1)
         IN  shorter \cup
             UNION {{Append(s, k) : k \in S \ Range(s)} : s \in shorter}

(***************************************************************************)
(* OrderedSet<T>: a std::list of elements and, with strategy FASTER, a    *)
(* companion std::set used to find duplicates.                             *)
(***************************************************************************)
NumValues == 3

Values == 1..NumValues

FASTER == "FASTER"

SMALLER == "SMALLER"

Strategies == {FASTER, SMALLER}

\* OrderedSet<T>::OrderedSet(strategy)
OrderedSet(strategy) ==
    [strategy |-> strategy, elements |-> <<>>, uniqueElements |-> {}]

\* OrderedSet<T>::valueExists
valueExists(os, value) ==
    IF os.strategy = FASTER
    THEN value \in os.uniqueElements
    ELSE \E i \in 1..Len(os.elements) : os.elements[i] = value

\* OrderedSet<T>::size
size(os) == Len(os.elements)

\* A variant of push_back whose SMALLER branch appends without looking.
push_back_alwaysAppends(os, value) ==
    IF os.strategy = FASTER
    THEN IF value \notin os.uniqueElements
         THEN [set |-> [os EXCEPT !.uniqueElements = @ \cup {value},
                                  !.elements = Append(@, value)],
               inserted |-> TRUE]
         ELSE [set |-> os, inserted |-> FALSE]
    ELSE [set |-> [os EXCEPT !.elements = Append(@, value)],
          inserted |-> TRUE]

\* OrderedSet<T>::push_back; the result is the set and the returned flag.
push_back(os, value) ==
    IF os.strategy = FASTER
    THEN IF value \notin os.uniqueElements
         THEN [set |-> [os EXCEPT !.uniqueElements = @ \cup {value},
                                  !.elements = Append(@, value)],
               inserted |-> TRUE]
         ELSE [set |-> os, inserted |-> FALSE]
    ELSE IF ~valueExists(os, value)
         THEN [set |-> [os EXCEPT !.elements = Append(@, value)],
               inserted |-> TRUE]
         ELSE [set |-> os, inserted |-> FALSE]

\* std::list::remove(value): drops every element equal to value.
ListRemove(elements, value) == SelectSeq(elements, LAMBDA e : e # value)

\* std::list::erase(pos): drops the element at position pos.
ListErase(elements, pos) ==
    [i \in 1..(Len(elements) - 1) |->
        IF i < pos THEN elements[i] ELSE elements[i + 1]]

\* A variant of erase(value) that forgets the companion set.
erase_keepsUnique(os, value) ==
    [os EXCEPT !.elements = ListRemove(@, value)]

\* OrderedSet<T>::erase(const T &value)
erase(os, value) ==
    [os EXCEPT !.uniqueElements = IF os.strategy = FASTER
                                  THEN @ \ {value} ELSE @,
               !.elements = ListRemove(@, value)]

\* A variant of erase(iterator) that forgets the companion set.
erasePos_keepsUnique(os, pos) ==
    [os EXCEPT !.elements = ListErase(@, pos)]

\* OrderedSet<T>::erase(iterator pos); pos must be dereferenceable.
erasePos(os, pos) ==
    [os EXCEPT !.uniqueElements = IF os.strategy = FASTER
                                  THEN @ \ {os.elements[pos]} ELSE @,
               !.elements = ListErase(@, pos)]

(***************************************************************************)
(* State.                                                                  *)
(*   List-view maintenance: the source RecordStore, the ListRecordStore    *)
(*   directory with its control file and KeyList file, the temporary file, *)
(*   and the locals of the running insert/remove call.                     *)
(*   OrderedSet harness: one set, the last call and its result.            *)
(*   mrgrecstor: the source stores named by the list file, the destination *)
(*   store, the options and the locals of main.                            *)
(***************************************************************************)
VARIABLES srcStore, lrsDir, controlFile, keyListFile, tmpFile,
          pc, op, opKeys, existingKeys, badKeys, wr, outcome, reported,
          os, osOp, osRet,
          stores, rsout, iBufferSize, bRemoveAfterMerge, mpc, lineNo, rsin,
          sKey, ui64DataSize, pBuffer, iStatus, errMsg

lrsVars == <<srcStore, lrsDir, controlFile, keyListFile, tmpFile,
             pc, op, opKeys, existingKeys, badKeys, wr, outcome,
             reported>>

osVars == <<os, osOp, osRet>>

mrgVars == <<stores, rsout, iBufferSize, bRemoveAfterMerge, mpc, lineNo,
             rsin, sKey, ui64DataSize, pBuffer, iStatus, errMsg>>

\* rstool: the sub-command and its options, the stores named on the command
\* line, what argument processing decided, the position of the running
\* make / add / merge, the exit status and whether stderr got a diagnostic.
VARIABLES action, argv, rpc, child_rs, files, merged_rs, hash_rs, created,
          kind, what_to_hash, hash_pathname, stopOnDuplicate, rsIdx,
          rsCursor, exitStatus, cerr

rstVars == <<action, argv, rpc, child_rs, files, merged_rs, hash_rs, created,
             kind, what_to_hash, hash_pathname, stopOnDuplicate, rsIdx,
             rsCursor, exitStatus, cerr>>

\* A RecordStore and one handle on it: the store's records, count and
\* description, the mode of the handle, the Python object's cursor, the
\* position of the store's own cursor, the keys the running pass has given,
\* and the last call with its result.
VARIABLES rsStore, rsDescription, rsPathname, binding, hMode, pyCursor,
          seqPos, pass, hCall, hRet

rshVars == <<rsStore, rsDescription, rsPathname, binding, hMode, pyCursor,
             seqPos, pass, hCall, hRet>>

\* Two OrderedSets, one of each strategy, that receive the same calls: the
\* sets, the last call and the pair of its results.
VARIABLES fast, small, eqOp, eqRet

eqVars == <<fast, small, eqOp, eqRet>>

\* rstool diff: the -s, -f and -k arguments, the stores the names stand
\* for, what procargs_diff assigned, the keys to compare, the position in
\* them, the status and the place in the code.
VARIABLES diffS, diffF, diffK, diffStores, sourceRS, targetRS, diffKeys,
          diffIdx, diffStatus, diffPc

diffVars == <<diffS, diffF, diffK, diffStores, sourceRS, targetRS, diffKeys,
              diffIdx, diffStatus, diffPc>>

\* dmprecstor: the -r and -k arguments, the store named, the loop counter
\* and bounds of the range dump, the cursor of the store, the files written
\* to the output directory (in the order of their fopen, and their
\* contents), the return code and the place in the code.
VARIABLES dmpRange, dmpKey, dmpStore, uiFirst, uiLast, uiCurr, dmpCursor,
          dumped, outputDir, iRetCode, dmpPc

dmpVars == <<dmpRange, dmpKey, dmpStore, uiFirst, uiLast, uiCurr, dmpCursor,
             dumped, outputDir, iRetCode, dmpPc>>

vars == <<lrsVars, osVars, mrgVars, rstVars, rshVars, eqVars,
                 diffVars,
                 dmpVars>>

(***************************************************************************)
(* Text helpers used by the KeyList reader and the bad-key report.         *)
(***************************************************************************)
COMMA == 44

IsSpace(c) == c = SP \/ c = NL

\* BE::Text::removeLeadingTrailingWhitespace
RECURSIVE removeLeadingTrailingWhitespace(_)
removeLeadingTrailingWhitespace(line) ==
    IF line = <<>> THEN line
    ELSE IF IsSpace(Head(line))
         THEN removeLeadingTrailingWhitespace(Tail(line))
    ELSE IF IsSpace(line[Len(line)])
         THEN removeLeadingTrailingWhitespace(SubSeq(line, 1, Len(line) - 1))
    ELSE line

\* A variant of the loop whose read of the last line sets eof, so that the
\* last line is dropped.
RECURSIVE ReadKeyLines_eofOnLastLine(_, _, _)
ReadKeyLines_eofOnLastLine(bytes, line, keys) ==
    IF bytes = <<>> THEN keys
    ELSE IF Head(bytes) = NL
         THEN IF Tail(bytes) = <<>> THEN keys
              ELSE ReadKeyLines_eofOnLastLine(Tail(bytes), <<>>,
                       push_back(keys,
                           removeLeadingTrailingWhitespace(line)).set)
    ELSE ReadKeyLines_eofOnLastLine(Tail(bytes), Append(line, Head(bytes)),
                                    keys)

\* The std::getline loop of readListRecordStoreKeys: every line that ends in
\* NL is trimmed and pushed; the read that reaches end of file ends the loop
\* and its (unterminated) text is dropped.
RECURSIVE ReadKeyLines(_, _, _)
ReadKeyLines(bytes, line, keys) ==
    IF bytes = <<>> THEN keys
    ELSE IF Head(bytes) = NL
         THEN ReadKeyLines(Tail(bytes), <<>>,
                  push_back(keys, removeLeadingTrailingWhitespace(line)).set)
    ELSE ReadKeyLines(Tail(bytes), Append(line, Head(bytes)), keys)

\* The line written for one key by writeListRecordStoreKeys.
KeyLine(key) == key \o <<NL>>

(***************************************************************************)
(* File system objects.                                                    *)
(***************************************************************************)
SourcePath == "S"

ListName == "L"

LISTTYPE == "List"

NoFile == [exists |-> FALSE, bytes |-> <<>>]

NoProps == [Name |-> "", Description |-> "", Type |-> "", Count |-> 0,
            SourceRecordStore |-> ""]

NoControlFile == [exists |-> FALSE, props |-> NoProps]

NoStore == [exists |-> FALSE, recs |-> <<>>, count |-> 0]

\* A RecordStore holding the keys of ks; the data of a record is its key.
StoreOf(ks) == [exists |-> TRUE, recs |-> [k \in ks |-> k],
                count |-> Cardinality(ks)]

\* RecordStore::openRecordStore: the store, or ObjectDoesNotExist.
openRecordStore(rs) == IF rs.exists THEN "ok" ELSE "ObjectDoesNotExist"

\* RecordStore::containsKey
containsKey(rs, key) == key \in DOMAIN rs.recs

\* isListRecordStore: the directory, a control file of type List and the
\* KeyList file all exist.
isListRecordStore ==
    /\ lrsDir = "dir"
    /\ controlFile.exists
    /\ controlFile.props.Type = LISTTYPE
    /\ keyListFile.exists

(***************************************************************************)
(* List-view maintenance (lrs_additions.cpp).                              *)
(***************************************************************************)
EmptySet == OrderedSet(FASTER)

Batches == DistinctSeqs(AllKeys, MaxBatch)

\* The locals of a call are gone once it has returned, thrown or died.
ResetLocals ==
    /\ opKeys' = <<>>
    /\ existingKeys' = EmptySet
    /\ badKeys' = <<>>
    /\ wr' = 0

\* A variant that does not look for an existing target.
constructListRecordStore_overwrites ==
    /\ pc = "idle"
    /\ op' = "construct"
    /\ reported' = <<>>
    /\ IF openRecordStore(srcStore) # "ok"
       THEN /\ outcome' = openRecordStore(srcStore)
            /\ UNCHANGED <<lrsDir, controlFile, keyListFile>>
       ELSE /\ lrsDir' = "dir"
            /\ controlFile' =
                 [exists |-> TRUE,
                  props |-> [Name |-> ListName,
                             Description |-> "<Description>",
                             Type |-> LISTTYPE,
                             Count |-> 0,
                             SourceRecordStore |-> SourcePath]]
            /\ keyListFile' = [exists |-> TRUE, bytes |-> <<>>]
            /\ outcome' = "ok"
    /\ UNCHANGED <<srcStore, tmpFile, pc, opKeys, existingKeys, badKeys,
                   wr>>

\* constructListRecordStore
constructListRecordStore ==
    /\ pc = "idle"
    /\ op' = "construct"
    /\ reported' = <<>>
    /\ IF openRecordStore(srcStore) # "ok"
       THEN /\ outcome' = openRecordStore(srcStore)
            /\ UNCHANGED <<lrsDir, controlFile, keyListFile>>
       ELSE IF lrsDir # "absent"
       THEN /\ outcome' = "ObjectExists"
            /\ UNCHANGED <<lrsDir, controlFile, keyListFile>>
       ELSE /\ lrsDir' = "dir"
            /\ controlFile' =
                 [exists |-> TRUE,
                  props |-> [Name |-> ListName,
                             Description |-> "<Description>",
                             Type |-> LISTTYPE,
                             Count |-> 0,
                             SourceRecordStore |-> SourcePath]]
            /\ keyListFile' = [exists |-> TRUE, bytes |-> <<>>]
            /\ outcome' = "ok"
    /\ UNCHANGED <<srcStore, tmpFile, pc, opKeys, existingKeys, badKeys,
                   wr>>

\* readListRecordStoreKeys: fails unless the path is a ListRecordStore whose
\* source can be opened; otherwise the keys of the KeyList file.
readFails ==
    \/ ~isListRecordStore
    \/ controlFile.props.SourceRecordStore # SourcePath
    \/ openRecordStore(srcStore) # "ok"

readListRecordStoreKeys == ReadKeyLines(keyListFile.bytes, <<>>, EmptySet)

\* A variant of the loop that gives up at the first key the source lacks.
RECURSIVE AddUniqueKeys_stopAtBadKey(_, _, _, _)
AddUniqueKeys_stopAtBadKey(srs, keys, existing, bad) ==
    IF keys = <<>> THEN [existingKeys |-> existing, badKeys |-> bad]
    ELSE IF ~containsKey(srs, Head(keys))
         THEN [existingKeys |-> existing,
               badKeys |-> bad \o Head(keys) \o <<COMMA, SP>>]
    ELSE AddUniqueKeys_stopAtBadKey(srs, Tail(keys),
                       push_back(existing, Head(keys)).set, bad)

\* The "Add unique keys" loop of insertKeysIntoListRecordStore.
RECURSIVE AddUniqueKeys(_, _, _, _)
AddUniqueKeys(srs, keys, existing, bad) ==
    IF keys = <<>> THEN [existingKeys |-> existing, badKeys |-> bad]
    ELSE IF ~containsKey(srs, Head(keys))
         THEN AddUniqueKeys(srs, Tail(keys), existing,
                            bad \o Head(keys) \o <<COMMA, SP>>)
    ELSE AddUniqueKeys(srs, Tail(keys),
                       push_back(existing, Head(keys)).set, bad)

\* A variant of the loop that gives up at the first key the list lacks.
RECURSIVE RemoveKeys_stopsAtAbsent(_, _)
RemoveKeys_stopsAtAbsent(keys, existing) ==
    IF keys = <<>> THEN existing
    ELSE IF ~valueExists(existing, Head(keys)) THEN existing
    ELSE RemoveKeys_stopsAtAbsent(Tail(keys), erase(existing, Head(keys)))

\* The "Remove keys" loop of removeKeysFromListRecordStore.
RECURSIVE RemoveKeys(_, _)
RemoveKeys(keys, existing) ==
    IF keys = <<>> THEN existing
    ELSE RemoveKeys(Tail(keys), erase(existing, Head(keys)))

\* insertKeysIntoListRecordStore up to the call of writeListRecordStoreKeys.
insertKeysIntoListRecordStore(keys) ==
    /\ pc = "idle"
    /\ op' = "insert"
    /\ reported' = <<>>
    /\ IF readFails
       THEN /\ outcome' = "StrategyError"
            /\ UNCHANGED <<pc, opKeys, existingKeys, badKeys>>
       ELSE LET r == AddUniqueKeys(srcStore, keys,
                                   readListRecordStoreKeys, <<>>)
            IN  /\ opKeys' = keys
                /\ existingKeys' = r.existingKeys
                /\ badKeys' = r.badKeys
                /\ pc' = "createTmp"
                /\ outcome' = "running"
    /\ UNCHANGED <<srcStore, lrsDir, controlFile, keyListFile, tmpFile, wr>>

\* A variant that also removes the keys from the source RecordStore.
removeKeysFromListRecordStore_fromSource(keys) ==
    /\ pc = "idle"
    /\ op' = "remove"
    /\ reported' = <<>>
    /\ IF readFails
       THEN /\ outcome' = "StrategyError"
            /\ UNCHANGED <<pc, opKeys, existingKeys, srcStore>>
       ELSE /\ opKeys' = keys
            /\ existingKeys' = RemoveKeys(keys, readListRecordStoreKeys)
            /\ srcStore' = StoreOf(DOMAIN srcStore.recs \ Range(keys))
            /\ pc' = "createTmp"
            /\ outcome' = "running"
    /\ UNCHANGED <<lrsDir, controlFile, keyListFile, tmpFile, badKeys, wr>>

\* removeKeysFromListRecordStore up to the call of writeListRecordStoreKeys.
removeKeysFromListRecordStore(keys) ==
    /\ pc = "idle"
    /\ op' = "remove"
    /\ reported' = <<>>
    /\ IF readFails
       THEN /\ outcome' = "StrategyError"
            /\ UNCHANGED <<pc, opKeys, existingKeys>>
       ELSE /\ opKeys' = keys
            /\ existingKeys' = RemoveKeys(keys, readListRecordStoreKeys)
            /\ pc' = "createTmp"
            /\ outcome' = "running"
    /\ UNCHANGED <<srcStore, lrsDir, controlFile, keyListFile, tmpFile,
                   badKeys, wr>>

(***************************************************************************)
(* writeListRecordStoreKeys, one step per file operation.                  *)
(***************************************************************************)
\* BE::IO::Utility::createTemporaryFile
createTemporaryFile ==
    /\ pc = "createTmp"
    /\ tmpFile' = [exists |-> TRUE, bytes |-> <<>>]
    /\ pc' = "open"
    /\ UNCHANGED <<srcStore, lrsDir, controlFile, keyListFile, op,
                   opKeys, existingKeys, badKeys, wr, outcome, reported>>

\* std::ofstream newListStream(newListPath)
openNewListStream ==
    /\ pc = "open"
    /\ tmpFile' = [exists |-> TRUE, bytes |-> <<>>]
    /\ wr' = 1
    /\ pc' = IF size(existingKeys) = 0 THEN "close" ELSE "write"
    /\ UNCHANGED <<srcStore, lrsDir, controlFile, keyListFile, op,
                   opKeys, existingKeys, badKeys, outcome, reported>>

\* A variant that copies each line straight into the KeyList file.
writeKeyLine_inPlace ==
    /\ pc = "write"
    /\ tmpFile' = [tmpFile EXCEPT
                     !.bytes = @ \o KeyLine(existingKeys.elements[wr])]
    /\ keyListFile' = [keyListFile EXCEPT !.bytes = tmpFile'.bytes]
    /\ wr' = wr + 1
    /\ pc' = IF wr = size(existingKeys) THEN "close" ELSE "write"
    /\ UNCHANGED <<srcStore, lrsDir, controlFile, op,
                   opKeys, existingKeys, badKeys, outcome, reported>>

\* newListStream << *i << '\n'
writeKeyLine ==
    /\ pc = "write"
    /\ tmpFile' = [tmpFile EXCEPT
                     !.bytes = @ \o KeyLine(existingKeys.elements[wr])]
    /\ wr' = wr + 1
    /\ pc' = IF wr = size(existingKeys) THEN "close" ELSE "write"
    /\ UNCHANGED <<srcStore, lrsDir, controlFile, keyListFile, op,
                   opKeys, existingKeys, badKeys, outcome, reported>>

\* newListStream.close()
closeNewListStream ==
    /\ pc = "close"
    /\ pc' = "rename"
    /\ UNCHANGED <<srcStore, lrsDir, controlFile, keyListFile, tmpFile, op,
                   opKeys, existingKeys, badKeys, wr, outcome, reported>>

\* std::rename(newListPath, existingListPath)
renameNewList ==
    /\ pc = "rename"
    /\ keyListFile' = [exists |-> TRUE, bytes |-> tmpFile.bytes]
    /\ tmpFile' = NoFile
    /\ pc' = "updateCount"
    /\ UNCHANGED <<srcStore, lrsDir, controlFile, op, opKeys,
                   existingKeys, badKeys, wr, outcome, reported>>

\* The report that ends insertKeysIntoListRecordStore: badKeys without its
\* last ", ".
BadKeyReport(bad) == SubSeq(bad, 1, Len(bad) - 2)

\* A variant that reports the bad keys before the Count is updated.
updateListRecordStoreCount_afterReport ==
    /\ pc = "updateCount"
    /\ IF ~isListRecordStore
       THEN /\ outcome' = "StrategyError"
            /\ reported' = <<>>
            /\ UNCHANGED controlFile
       ELSE IF op = "insert" /\ badKeys # <<>>
       THEN /\ outcome' = "ObjectDoesNotExist"
            /\ reported' = BadKeyReport(badKeys)
            /\ UNCHANGED controlFile
       ELSE /\ controlFile' = [controlFile EXCEPT
                                 !.props.Count = size(existingKeys)]
            /\ outcome' = "ok"
            /\ reported' = <<>>
    /\ pc' = "idle"
    /\ ResetLocals
    /\ UNCHANGED <<srcStore, lrsDir, keyListFile, tmpFile, op>>

\* updateListRecordStoreCount(path, keys->size()), and the return of the
\* call: insert throws ObjectDoesNotExist when badKeys is not empty.
updateListRecordStoreCount ==
    /\ pc = "updateCount"
    /\ IF ~isListRecordStore
       THEN /\ outcome' = "StrategyError"
            /\ reported' = <<>>
            /\ UNCHANGED controlFile
       ELSE /\ controlFile' = [controlFile EXCEPT
                                 !.props.Count = size(existingKeys)]
            /\ IF op = "insert" /\ badKeys # <<>>
               THEN /\ outcome' = "ObjectDoesNotExist"
                    /\ reported' = BadKeyReport(badKeys)
               ELSE /\ outcome' = "ok"
                    /\ reported' = <<>>
    /\ pc' = "idle"
    /\ ResetLocals
    /\ UNCHANGED <<srcStore, lrsDir, keyListFile, tmpFile, op>>

\* A file operation of writeListRecordStoreKeys fails: FileError is thrown
\* and the temporary file is abandoned.
WritePcs == {"createTmp", "open", "write", "close", "rename"}

throwFileError ==
    /\ pc \in WritePcs
    /\ outcome' = "FileError"
    /\ pc' = "idle"
    /\ tmpFile' = NoFile
    /\ ResetLocals
    /\ UNCHANGED <<srcStore, lrsDir, controlFile, keyListFile, op,
                   reported>>

\* The process is killed in the middle of a call.
Interrupt ==
    /\ pc # "idle"
    /\ outcome' = "interrupted"
    /\ pc' = "idle"
    /\ tmpFile' = NoFile
    /\ ResetLocals
    /\ UNCHANGED <<srcStore, lrsDir, controlFile, keyListFile, op,
                   reported>>

(***************************************************************************)
(* Specification of the list-view maintenance.                             *)
(***************************************************************************)
\* The source stores tried: the last plain key is in none of them, the
\* padded key is in some, with and without its trimmed form.
SourceKeySets ==
    LET present == PlainKeys \ {Key(NumKeys)}
    IN  {present, present \cup {PaddedKey},
         (present \ {Key(1)}) \cup {PaddedKey}}

OsIdle ==
    /\ os = EmptySet
    /\ osOp = [name |-> "new", arg |-> 0]
    /\ osRet = FALSE

NoRsin == [open |-> FALSE, cursor |-> 0]

MrgIdle ==
    /\ stores = <<>>
    /\ rsout = NoStore
    /\ iBufferSize = 0
    /\ bRemoveAfterMerge = FALSE
    /\ mpc = "exit"
    /\ lineNo = 0
    /\ rsin = NoRsin
    /\ sKey = <<>>
    /\ ui64DataSize = 0
    /\ pBuffer = <<>>
    /\ iStatus = "EXIT_FAILURE"
    /\ errMsg = "none"

RstIdle ==
    /\ action = "QUIT"
    /\ argv = <<>>
    /\ rpc = "exit"
    /\ child_rs = <<>>
    /\ files = <<>>
    /\ merged_rs = NoStore
    /\ hash_rs = NoStore
    /\ created = {}
    /\ kind = "Default"
    /\ what_to_hash = "NOTHING"
    /\ hash_pathname = ""
    /\ stopOnDuplicate = TRUE
    /\ rsIdx = 0
    /\ rsCursor = 0
    /\ exitStatus = "none"
    /\ cerr = FALSE

NoCall == [name |-> "none", key |-> <<>>, data |-> <<>>, mode |-> ""]

NoRet == [status |-> "none", key |-> <<>>, data |-> <<>>, size |-> 0]

NewPass == [keys |-> <<>>, clean |-> TRUE]

RshIdle ==
    /\ rsStore = NoStore
    /\ rsDescription = ""
    /\ rsPathname = ""
    /\ binding = "none"
    /\ hMode = "none"
    /\ pyCursor = "START"
    /\ seqPos = 0
    /\ pass = NewPass
    /\ hCall = NoCall
    /\ hRet = NoRet

NoResult == [flag |-> FALSE, n |-> 0]

EqIdle ==
    /\ fast = OrderedSet(FASTER)
    /\ small = OrderedSet(SMALLER)
    /\ eqOp = [name |-> "new", arg |-> 0]
    /\ eqRet = <<NoResult, NoResult>>

DiffIdle ==
    /\ diffS = <<>>
    /\ diffF = FALSE
    /\ diffK = <<>>
    /\ diffStores = <<>>
    /\ sourceRS = ""
    /\ targetRS = ""
    /\ diffKeys = <<>>
    /\ diffIdx = 0
    /\ diffStatus = "none"
    /\ diffPc = "exit"

DmpIdle ==
    /\ dmpRange = <<>>
    /\ dmpKey = <<>>
    /\ dmpStore = NoStore
    /\ uiFirst = 0
    /\ uiLast = 0
    /\ uiCurr = 0
    /\ dmpCursor = 0
    /\ dumped = <<>>
    /\ outputDir = <<>>
    /\ iRetCode = "none"
    /\ dmpPc = "exit"

Init ==
    /\ MrgIdle
    /\ RstIdle
    /\ RshIdle
    /\ EqIdle
    /\ DiffIdle
    /\ DmpIdle
    /\ srcStore \in {NoStore} \cup {StoreOf(ks) : ks \in SourceKeySets}
    /\ lrsDir \in {"absent", "dir"}
    /\ controlFile = NoControlFile
    /\ keyListFile = NoFile
    /\ tmpFile = NoFile
    /\ pc = "idle"
    /\ op = "none"
    /\ opKeys = <<>>
    /\ existingKeys = EmptySet
    /\ badKeys = <<>>
    /\ wr = 0
    /\ outcome = "none"
    /\ reported = <<>>
    /\ OsIdle

Next ==
       /\ \/ constructListRecordStore
          \/ \E keys \in Batches : insertKeysIntoListRecordStore(keys)
          \/ \E keys \in Batches : removeKeysFromListRecordStore(keys)
          \/ createTemporaryFile
          \/ openNewListStream
          \/ writeKeyLine
          \/ closeNewListStream
          \/ renameNewList
          \/ updateListRecordStoreCount
          \/ throwFileError
          \/ Interrupt
       /\ UNCHANGED <<osVars, mrgVars, rstVars, rshVars, eqVars, diffVars,
                 dmpVars>>

Spec == Init /\ [][Next]_vars

(***************************************************************************)
(* Vocabulary of the properties of the list-view.                          *)
(***************************************************************************)
\* The KeyList file that holds exactly the given keys, one per line.
RECURSIVE KeyListBytes(_)
KeyListBytes(keys) ==
    IF keys = <<>> THEN <<>>
    ELSE KeyLine(Head(keys)) \o KeyListBytes(Tail(keys))

\* Number of keys (lines) in a KeyList file.
KeyLineCount(bytes) == Cardinality({i \in 1..Len(bytes) : bytes[i] = NL})

\* The lines of a KeyList file as written, without their NL.
RECURSIVE SplitLines(_, _)
SplitLines(bytes, line) ==
    IF bytes = <<>> THEN <<>>
    ELSE IF Head(bytes) = NL THEN <<line>> \o SplitLines(Tail(bytes), <<>>)
    ELSE SplitLines(Tail(bytes), Append(line, Head(bytes)))

WrittenKeys == SplitLines(keyListFile.bytes, <<>>)

\* The keys a reader of the KeyList file obtains.
ListedKeys == readListRecordStoreKeys.elements

CountProperty == controlFile.props.Count

InSource(k) == k \in DOMAIN srcStore.recs

\* The given keys separated by ", ".
RECURSIVE JoinKeys(_)
JoinKeys(keys) ==
    IF keys = <<>> THEN <<>>
    ELSE IF Len(keys) = 1 THEN Head(keys)
    ELSE Head(keys) \o <<COMMA, SP>> \o JoinKeys(Tail(keys))

\* A call of insert or remove has returned, or insert has reported bad keys.
Completed(o) ==
    /\ pc = "idle"
    /\ op = o
    /\ outcome \in {"ok", "ObjectDoesNotExist"}

(***************************************************************************)
(* C1: the KeyList file and the Count property change together or not at   *)
(* all: whenever no call is running, also after a call was interrupted or  *)
(* failed between the rename and the Count update, Count is the number of  *)
(* keys in the KeyList file.                                               *)
(***************************************************************************)
C1_CountWithKeyListAtRest ==
    (pc = "idle" /\ isListRecordStore)
        => CountProperty = KeyLineCount(keyListFile.bytes)

(***************************************************************************)
(* C2: the KeyList file changes in one step only, the rename, which        *)
(* installs the complete new list; every other step of a mutation -- a     *)
(* write to the temporary file, a failure, an interruption -- leaves the    *)
(* KeyList file holding the prior list.                                    *)
(***************************************************************************)
C2_AtomicListUpdate ==
    [][op' # "construct" =>
          \/ keyListFile' = keyListFile
          \/ /\ pc = "rename"
             /\ keyListFile' = [exists |-> TRUE,
                                bytes |-> KeyListBytes(existingKeys.elements)]
      ]_vars

\* The temporary file is partly written while the KeyList file holds the
\* old, non-empty list.
C2_Witness ==
    /\ pc = "write"
    /\ wr > 1
    /\ keyListFile.bytes # <<>>
    /\ tmpFile.bytes # keyListFile.bytes

(***************************************************************************)
(* C3: after a completed insert or remove (insert may have ended by        *)
(* reporting bad keys) the Count property equals the number of keys in the *)
(* KeyList file.                                                           *)
(***************************************************************************)
C3_CountAfterCompletedCall ==
    (Completed("insert") \/ Completed("remove"))
        => CountProperty = KeyLineCount(keyListFile.bytes)

\* An insert that reported bad keys left a list of two keys.
C3_Witness ==
    /\ Completed("insert")
    /\ outcome = "ObjectDoesNotExist"
    /\ CountProperty = 2

(***************************************************************************)
(* C4: insert is a partial success.  Whatever the batch, the list the call *)
(* goes on to write is the old list followed by the batch keys that the    *)
(* source holds and the list lacked, in batch order, and the keys the      *)
(* source lacks are all collected; a first bad key does not end the call.  *)
(* Nothing is reported before the list and the Count are written; the call *)
(* ends with the list persisted, the Count equal to its length, and all    *)
(* the collected keys reported together in one ObjectDoesNotExist.         *)
(***************************************************************************)
C4_Call ==
    (pc = "idle" /\ op' = "insert" /\ pc' # "idle") =>
        /\ pc' = "createTmp"
        /\ opKeys' \in Batches
        /\ existingKeys'.elements =
              ListedKeys \o SelectSeq(opKeys',
                  LAMBDA k : InSource(k) /\ k \notin Range(ListedKeys))
        /\ badKeys' =
              IF \A k \in Range(opKeys') : InSource(k) THEN <<>>
              ELSE JoinKeys(SelectSeq(opKeys', LAMBDA k : ~InSource(k)))
                       \o <<COMMA, SP>>

C4_Writing ==
    /\ (op = "insert" /\ pc # "idle") => outcome = "running"
    /\ (op = "insert" /\ pc = "updateCount") =>
          keyListFile.bytes = KeyListBytes(existingKeys.elements)

C4_Return ==
    (op = "insert" /\ pc = "updateCount" /\ outcome' # "interrupted") =>
        /\ pc' = "idle"
        /\ keyListFile' = keyListFile
        /\ CountProperty' = Len(existingKeys.elements)
        /\ CountProperty' = KeyLineCount(keyListFile'.bytes)
        /\ (outcome' = "ObjectDoesNotExist") = (badKeys # <<>>)
        /\ (outcome' = "ok") = (badKeys = <<>>)
        /\ badKeys # <<>> => reported' \o <<COMMA, SP>> = badKeys

C4_PartialSuccess == [](C4_Writing) /\ [][C4_Call /\ C4_Return]_vars

\* add [f1, f<last>] to an empty view of a source without f<last> has ended:
\* the list is [f1], the count 1 and f<last> is reported.
C4_Witness ==
    /\ Completed("insert")
    /\ WrittenKeys = <<Key(1)>>
    /\ CountProperty = 1
    /\ outcome = "ObjectDoesNotExist"
    /\ reported = Key(NumKeys)

(***************************************************************************)
(* C5: no list-view operation changes the source RecordStore.              *)
(***************************************************************************)
C5_SourceIsolation == [][srcStore' = srcStore]_vars

\* A remove has taken a key of the source off the list (the Count is not yet
\* lowered) and the source still holds it.
C5_Witness ==
    /\ op = "remove"
    /\ pc = "updateCount"
    /\ CountProperty > KeyLineCount(keyListFile.bytes)
    /\ \E k \in Range(opKeys) : InSource(k) /\ k \notin Range(WrittenKeys)

(***************************************************************************)
(* C6: constructListRecordStore fails with ObjectDoesNotExist when the     *)
(* source does not exist, else with ObjectExists when the target path      *)
(* exists, changing nothing in both cases; else it creates a control file  *)
(* with Type List, Count 0 and the source path, and an empty key list.     *)
(***************************************************************************)
C6_Construct ==
    [][(pc = "idle" /\ op' = "construct") =>
          IF ~srcStore.exists
          THEN /\ outcome' = "ObjectDoesNotExist"
               /\ UNCHANGED <<srcStore, lrsDir, controlFile, keyListFile,
                              tmpFile>>
          ELSE IF lrsDir # "absent"
          THEN /\ outcome' = "ObjectExists"
               /\ UNCHANGED <<srcStore, lrsDir, controlFile, keyListFile,
                              tmpFile>>
          ELSE /\ outcome' = "ok"
               /\ isListRecordStore'
               /\ controlFile'.props.Type = LISTTYPE
               /\ controlFile'.props.Count = 0
               /\ controlFile'.props.SourceRecordStore = SourcePath
               /\ keyListFile'.bytes = <<>>
               /\ ListedKeys' = <<>>
               /\ srcStore' = srcStore
      ]_vars

\* A ListRecordStore has just been constructed.
C6_Witness ==
    /\ op = "construct"
    /\ outcome = "ok"
    /\ isListRecordStore
    /\ CountProperty = 0

(***************************************************************************)
(* C7: insertKeysIntoListRecordStore throws ObjectExists when a key to be  *)
(* inserted is already in the key list.                                    *)
(***************************************************************************)
C7_ThrowsObjectExists ==
    [][(/\ pc = "idle"
        /\ op' = "insert"
        /\ \E k \in Range(opKeys') : k \in Range(ListedKeys))
          => (pc' = "idle" /\ outcome' = "ObjectExists")
      ]_vars

(***************************************************************************)
(* OrderedSet harness: any sequence of calls on one set of either          *)
(* strategy.                                                               *)
(***************************************************************************)
LrsIdle ==
    /\ srcStore = NoStore
    /\ lrsDir = "absent"
    /\ controlFile = NoControlFile
    /\ keyListFile = NoFile
    /\ tmpFile = NoFile
    /\ pc = "idle"
    /\ op = "none"
    /\ opKeys = <<>>
    /\ existingKeys = EmptySet
    /\ badKeys = <<>>
    /\ wr = 0
    /\ outcome = "none"
    /\ reported = <<>>

CallPushBack(v) ==
    /\ os' = push_back(os, v).set
    /\ osRet' = push_back(os, v).inserted
    /\ osOp' = [name |-> "push_back", arg |-> v]

CallErase(v) ==
    /\ os' = erase(os, v)
    /\ osRet' = FALSE
    /\ osOp' = [name |-> "erase", arg |-> v]

CallErasePos(p) ==
    /\ os' = erasePos(os, p)
    /\ osRet' = FALSE
    /\ osOp' = [name |-> "erasePos", arg |-> p]

InitOS ==
    /\ LrsIdle
    /\ MrgIdle
    /\ RstIdle
    /\ RshIdle
    /\ EqIdle
    /\ DiffIdle
    /\ DmpIdle
    /\ os \in {OrderedSet(st) : st \in Strategies}
    /\ osOp = [name |-> "new", arg |-> 0]
    /\ osRet = FALSE

NextOS ==
    /\ \/ \E v \in Values : CallPushBack(v)
       \/ \E v \in Values : CallErase(v)
       \/ \E p \in 1..size(os) : CallErasePos(p)
    /\ UNCHANGED <<lrsVars, mrgVars, rstVars, rshVars, eqVars, diffVars,
                 dmpVars>>

SpecOS == InitOS /\ [][NextOS]_vars

\* Position of a value in a sequence that holds it.
PosOf(seq, v) == CHOOSE i \in 1..Len(seq) : seq[i] = v

(***************************************************************************)
(* C8: push_back(v) changes nothing and returns false when v is present;   *)
(* otherwise it appends v after all elements, grows the size by one and    *)
(* returns true; with either strategy.                                     *)
(***************************************************************************)
C8_PushBack ==
    [][osOp'.name = "push_back" =>
          LET v == osOp'.arg
          IN  IF v \in Range(os.elements)
              THEN /\ os'.elements = os.elements
                   /\ size(os') = size(os)
                   /\ osRet' = FALSE
              ELSE /\ os'.elements = Append(os.elements, v)
                   /\ size(os') = size(os) + 1
                   /\ osRet' = TRUE
      ]_vars

\* A push_back of a value that is present was turned down.
C8_Witness ==
    /\ osOp = [name |-> "push_back", arg |-> 1]
    /\ osRet = FALSE
    /\ os.elements = <<1, 2>>
    /\ os.strategy = FASTER

(***************************************************************************)
(* C9: iteration yields pairwise distinct values, size() is their number,  *)
(* valueExists(v) holds exactly for them, and the order is the order of    *)
(* insertion: no call changes the relative order of two values that stay,  *)
(* and a value that comes in is placed after all the others.               *)
(***************************************************************************)
C9_Distinct ==
    /\ \A i, j \in 1..Len(os.elements) :
          os.elements[i] = os.elements[j] => i = j
    /\ size(os) = Cardinality(Range(os.elements))
    /\ \A v \in Values : valueExists(os, v) <=> v \in Range(os.elements)

C9_OrderKept ==
    /\ \A a, b \in Range(os.elements) \cap Range(os'.elements) :
          PosOf(os.elements, a) < PosOf(os.elements, b)
              => PosOf(os'.elements, a) < PosOf(os'.elements, b)
    /\ \A n \in Range(os'.elements) \ Range(os.elements) :
          PosOf(os'.elements, n) = Len(os'.elements)

C9_InsertionOrder == [](C9_Distinct) /\ [][C9_OrderKept]_vars

\* 1 was erased from the front and inserted again: it is now the last.
C9_Witness ==
    /\ os.strategy = SMALLER
    /\ os.elements = <<2, 3, 1>>
    /\ osOp = [name |-> "push_back", arg |-> 1]
    /\ osRet = TRUE

(***************************************************************************)
(* mrgrecstor (mrgrecstor.cpp, main).  The list file names the source      *)
(* stores 1..NumSources; a DBRecordStore sequences its keys in key order.  *)
(***************************************************************************)
NumSources == 2

NumMergeKeys == 3

MaxDataLen == 2

DEFAULT_BUFFER_SIZE == 4096

MergeKeys == {Key(n) : n \in 1..NumMergeKeys}

\* The bytes stored under a key: len bytes that name the key.
DataOf(k, len) == [j \in 1..len |-> k[1] - 96]

\* The length of the record stored under a key: 1, 2, .., MaxDataLen, 1, ..
LenOf(k) == ((k[1] - 97) % MaxDataLen) + 1

\* The keys and data lengths a source store may have.
SourceContents ==
    {[k \in ks |-> LenOf(k)] : ks \in SUBSET MergeKeys}

SourceStore(lens) ==
    [exists |-> TRUE,
     recs |-> [k \in DOMAIN lens |-> DataOf(k, lens[k])],
     count |-> Cardinality(DOMAIN lens)]

\* Values of -b: the default and one that the longest record does not fit.
BufferSizes == {DEFAULT_BUFFER_SIZE, MaxDataLen - 1}

\* DBRecordStore::sequence: the key at a cursor position, in key order.
KeyAt(rs, cursor) ==
    CHOOSE k \in DOMAIN rs.recs :
        Cardinality({j \in DOMAIN rs.recs : j[1] < k[1]}) = cursor

EmptyStore == [exists |-> TRUE, recs |-> <<>>, count |-> 0]

\* DBRecordStore::insert of a key the store lacks.
StoreInsert(rs, key, data) ==
    [rs EXCEPT !.recs = [k \in DOMAIN rs.recs \cup {key} |->
                            IF k = key THEN data ELSE rs.recs[k]],
               !.count = @ + 1]

\* DBRecordStore::replace of a key the store has.
StoreReplace(rs, key, data) ==
    [rs EXCEPT !.recs = [k \in DOMAIN rs.recs |->
                            IF k = key THEN data ELSE rs.recs[k]]]

\* goto err_out
ErrOut(msg) ==
    /\ errMsg' = msg
    /\ mpc' = "exit"

\* "Create new record store": when the store exists the user is asked;
\* y removes and recreates it, n gives up.
CreateRecordStore ==
    /\ mpc = "create"
    /\ IF ~rsout.exists
       THEN /\ rsout' = EmptyStore
            /\ mpc' = "merge"
            /\ UNCHANGED errMsg
       ELSE \E overwrite \in BOOLEAN :
              IF overwrite
              THEN /\ rsout' = EmptyStore
                   /\ mpc' = "merge"
                   /\ UNCHANGED errMsg
              ELSE /\ ErrOut("declined")
                   /\ UNCHANGED rsout
    /\ UNCHANGED <<stores, iBufferSize, bRemoveAfterMerge, lineNo, rsin,
                   sKey, ui64DataSize, pBuffer, iStatus>>

\* fscanf of the next line and "Open record store".
OpenSource ==
    /\ mpc = "merge"
    /\ ~rsin.open
    /\ lineNo < Len(stores)
    /\ IF openRecordStore(stores[lineNo + 1]) = "ok"
       THEN /\ rsin' = [open |-> TRUE, cursor |-> 0]
            /\ lineNo' = lineNo + 1
            /\ UNCHANGED <<mpc, errMsg>>
       ELSE /\ ErrOut("open")
            /\ lineNo' = lineNo + 1
            /\ UNCHANGED rsin
    /\ UNCHANGED <<stores, rsout, iBufferSize, bRemoveAfterMerge, sKey,
                   ui64DataSize, pBuffer, iStatus>>

\* A variant that passes over a key the destination already holds.
CopyRecord_skipsDuplicate ==
    /\ mpc = "merge"
    /\ rsin.open
    /\ rsin.cursor < stores[lineNo].count
    /\ LET key == KeyAt(stores[lineNo], rsin.cursor)
           data == stores[lineNo].recs[key]
       IN  /\ sKey' = key
           /\ ui64DataSize' = Len(data)
           /\ rsin' = [rsin EXCEPT !.cursor = @ + 1]
           /\ IF Len(data) > iBufferSize
              THEN /\ ErrOut("buffer")
                   /\ UNCHANGED <<pBuffer, rsout>>
              ELSE /\ pBuffer' = data
                   /\ IF key \in DOMAIN rsout.recs
                      THEN UNCHANGED <<rsout, mpc, errMsg>>
                      ELSE /\ rsout' = StoreInsert(rsout, key,
                                          SubSeq(pBuffer', 1, ui64DataSize'))
                           /\ UNCHANGED <<mpc, errMsg>>
    /\ UNCHANGED <<stores, iBufferSize, bRemoveAfterMerge, lineNo, iStatus>>

\* One turn of the inner loop that finds a record: sequence, the buffer
\* check, read and insert.
CopyRecord ==
    /\ mpc = "merge"
    /\ rsin.open
    /\ rsin.cursor < stores[lineNo].count
    /\ LET key == KeyAt(stores[lineNo], rsin.cursor)
           data == stores[lineNo].recs[key]
       IN  /\ sKey' = key
           /\ ui64DataSize' = Len(data)
           /\ rsin' = [rsin EXCEPT !.cursor = @ + 1]
           /\ IF Len(data) > iBufferSize
              THEN /\ ErrOut("buffer")
                   /\ UNCHANGED <<pBuffer, rsout>>
              ELSE /\ pBuffer' = data
                   /\ IF key \in DOMAIN rsout.recs
                      THEN /\ ErrOut("duplicate")
                           /\ UNCHANGED rsout
                      ELSE /\ rsout' = StoreInsert(rsout, key,
                                          SubSeq(pBuffer', 1, ui64DataSize'))
                           /\ UNCHANGED <<mpc, errMsg>>
    /\ UNCHANGED <<stores, iBufferSize, bRemoveAfterMerge, lineNo, iStatus>>

\* A variant in which the end of one source ends the whole merge.
SourceExhausted_endsMerge ==
    /\ mpc = "merge"
    /\ rsin.open
    /\ rsin.cursor = stores[lineNo].count
    /\ rsin' = NoRsin
    /\ lineNo' = Len(stores)
    /\ UNCHANGED <<stores, rsout, iBufferSize, bRemoveAfterMerge, mpc, sKey,
                   ui64DataSize, pBuffer, iStatus, errMsg>>

\* A variant that with -r removes a source as soon as it has been merged.
SourceExhausted_removesSource ==
    /\ mpc = "merge"
    /\ rsin.open
    /\ rsin.cursor = stores[lineNo].count
    /\ rsin' = NoRsin
    /\ stores' = IF bRemoveAfterMerge
                 THEN [stores EXCEPT ![lineNo] = NoStore]
                 ELSE stores
    /\ UNCHANGED <<rsout, iBufferSize, bRemoveAfterMerge, mpc,
                   lineNo, sKey, ui64DataSize, pBuffer, iStatus, errMsg>>

\* sequence throws ObjectDoesNotExist: the inner loop ends and rsin is
\* deleted.
SourceExhausted ==
    /\ mpc = "merge"
    /\ rsin.open
    /\ rsin.cursor = stores[lineNo].count
    /\ rsin' = NoRsin
    /\ UNCHANGED <<stores, rsout, iBufferSize, bRemoveAfterMerge, mpc,
                   lineNo, sKey, ui64DataSize, pBuffer, iStatus, errMsg>>

\* feof(fp): "Finished merging record stores".
MergeFinished ==
    /\ mpc = "merge"
    /\ ~rsin.open
    /\ lineNo = Len(stores)
    /\ mpc' = "merged"
    /\ UNCHANGED <<stores, rsout, iBufferSize, bRemoveAfterMerge, lineNo,
                   rsin, sKey, ui64DataSize, pBuffer, iStatus, errMsg>>

\* After the merge: without -r the run succeeds; with -r the list file is
\* rewound to remove the sources.
AfterMerge ==
    /\ mpc = "merged"
    /\ IF bRemoveAfterMerge
       THEN /\ mpc' = "remove"
            /\ lineNo' = 0
            /\ UNCHANGED iStatus
       ELSE /\ mpc' = "exit"
            /\ iStatus' = "EXIT_SUCCESS"
            /\ UNCHANGED lineNo
    /\ UNCHANGED <<stores, rsout, iBufferSize, bRemoveAfterMerge, rsin,
                   sKey, ui64DataSize, pBuffer, errMsg>>

\* DBRecordStore::removeRecordStore of the next listed source, or the end of
\* the list.
RemoveSource ==
    /\ mpc = "remove"
    /\ IF lineNo < Len(stores)
       THEN /\ lineNo' = lineNo + 1
            /\ IF stores[lineNo + 1].exists
               THEN /\ stores' = [stores EXCEPT ![lineNo + 1] = NoStore]
                    /\ UNCHANGED <<mpc, errMsg>>
               ELSE /\ ErrOut("remove")
                    /\ UNCHANGED stores
            /\ UNCHANGED iStatus
       ELSE /\ mpc' = "exit"
            /\ iStatus' = "EXIT_SUCCESS"
            /\ UNCHANGED <<stores, lineNo, errMsg>>
    /\ UNCHANGED <<rsout, iBufferSize, bRemoveAfterMerge, rsin, sKey,
                   ui64DataSize, pBuffer>>

InitMrg ==
    /\ LrsIdle
    /\ OsIdle
    /\ RstIdle
    /\ RshIdle
    /\ EqIdle
    /\ DiffIdle
    /\ DmpIdle
    /\ stores \in [1..NumSources ->
                     {NoStore} \cup
                     {SourceStore(lens) : lens \in SourceContents}]
    /\ rsout \in {NoStore, StoreInsert(EmptyStore, Key(1), DataOf(Key(1), 1))}
    /\ iBufferSize \in BufferSizes
    /\ bRemoveAfterMerge \in BOOLEAN
    /\ mpc = "create"
    /\ lineNo = 0
    /\ rsin = NoRsin
    /\ sKey = <<>>
    /\ ui64DataSize = 0
    /\ pBuffer = <<>>
    /\ iStatus = "EXIT_FAILURE"
    /\ errMsg = "none"

NextMrg ==
    /\ \/ CreateRecordStore
       \/ OpenSource
       \/ CopyRecord
       \/ SourceExhausted
       \/ MergeFinished
       \/ AfterMerge
       \/ RemoveSource
    /\ UNCHANGED <<lrsVars, osVars, rstVars, rshVars, eqVars, diffVars,
                 dmpVars>>

SpecMrg == InitMrg /\ [][NextMrg]_vars

(***************************************************************************)
(* Vocabulary of the properties of the merge.                              *)
(***************************************************************************)
SourcesExist == \A i \in 1..Len(stores) : stores[i].exists

SourcesDisjoint ==
    \A i, j \in 1..Len(stores) :
        i # j => DOMAIN stores[i].recs \cap DOMAIN stores[j].recs = {}

\* Every source record fits the read buffer.
RecordsFit ==
    \A i \in 1..Len(stores) : \A k \in DOMAIN stores[i].recs :
        Len(stores[i].recs[k]) <= iBufferSize

RECURSIVE SumOfCounts(_)
SumOfCounts(n) == IF n = 0 THEN 0 ELSE stores[n].count + SumOfCounts(n - 1)

\* The merge ran to its end and the destination holds every source record.
MergeIsRight ==
    /\ errMsg \notin {"open", "buffer", "duplicate"}
    /\ mpc = "merged" =>
          /\ rsout.count = SumOfCounts(Len(stores))
          /\ Cardinality(DOMAIN rsout.recs) = rsout.count
          /\ \A i \in 1..Len(stores) : \A k \in DOMAIN stores[i].recs :
                /\ k \in DOMAIN rsout.recs
                /\ rsout.recs[k] = stores[i].recs[k]

(***************************************************************************)
(* C10, as stated: merging source stores with pairwise disjoint key sets   *)
(* gives a destination whose count is the sum of the source counts and     *)
(* whose records are the source records.                                   *)
(***************************************************************************)
C10_MergeOfDisjointStores ==
    (SourcesExist /\ SourcesDisjoint) => MergeIsRight

(***************************************************************************)
(* C10, amended: the same, for source stores whose records are each no     *)
(* larger than the read buffer (-b, 4096 bytes unless given).              *)
(***************************************************************************)
C10_MergeOfFittingDisjointStores ==
    (SourcesExist /\ SourcesDisjoint /\ RecordsFit) => MergeIsRight

\* Store 1 = {f1, f2}, store 2 = {f3}, merged: three records.
C10_Witness ==
    /\ mpc = "merged"
    /\ SourcesExist /\ SourcesDisjoint /\ RecordsFit
    /\ DOMAIN stores[1].recs = {Key(1), Key(2)}
    /\ DOMAIN stores[2].recs = {Key(3)}
    /\ rsout.count = 3
    /\ rsout.recs[Key(2)] = DataOf(Key(2), LenOf(Key(2)))

(***************************************************************************)
(* C11: a key that two sources share stops the merge.  The insert of a key *)
(* the destination already holds writes nothing and ends the run with the  *)
(* key reported; from then on the destination does not change, so no later *)
(* record of that or of a following source is inserted; the exit status is *)
(* a failure; and no run over sources that share a key reaches the end of  *)
(* the merge.                                                              *)
(***************************************************************************)
DuplicateInsert ==
    /\ mpc = "merge"
    /\ rsin.open
    /\ rsin.cursor < stores[lineNo].count
    /\ Len(stores[lineNo].recs[KeyAt(stores[lineNo], rsin.cursor)])
          <= iBufferSize
    /\ KeyAt(stores[lineNo], rsin.cursor) \in DOMAIN rsout.recs

C11_Reported ==
    errMsg = "duplicate" =>
        /\ mpc = "exit"
        /\ iStatus = "EXIT_FAILURE"
        /\ sKey \in DOMAIN stores[lineNo].recs
        /\ \E i \in 1..(lineNo - 1) : sKey \in DOMAIN stores[i].recs

C11_StopAtDuplicate ==
    /\ [](C11_Reported)
    /\ []((mpc = "merged" /\ SourcesExist) => SourcesDisjoint)
    /\ [][/\ DuplicateInsert =>
                /\ errMsg' = "duplicate"
                /\ sKey' = KeyAt(stores[lineNo], rsin.cursor)
                /\ rsout' = rsout
          /\ errMsg = "duplicate" => (rsout' = rsout /\ errMsg' = errMsg)
         ]_vars

\* Store 1 = {f1}, store 2 = {f1, f2}: stopped at f1, f2 was not inserted.
C11_Witness ==
    /\ errMsg = "duplicate"
    /\ mpc = "exit"
    /\ iStatus = "EXIT_FAILURE"
    /\ sKey = Key(1)
    /\ DOMAIN stores[1].recs = {Key(1)}
    /\ {Key(1), Key(2)} \subseteq DOMAIN stores[2].recs
    /\ DOMAIN rsout.recs = {Key(1)}

(***************************************************************************)
(* rstool: make, add and merge.                                            *)
(***************************************************************************)
MaxArgs == 3

NumHashes == 3

NUL == 0

SLASH == 47

Opt(letter, arg) == [opt |-> letter, arg |-> arg]

\* The options tried on the command line; -s is always given.
Options ==
    {Opt("c", ""), Opt("p", ""), Opt("h", "H"), Opt("z", ""), Opt("q", ""),
     Opt("f", ""), Opt("t", "List"), Opt("t", "BerkeleyDB")}

ArgLists == DistinctSeqs(Options, MaxArgs)

RECURSIVE SumOfBytes(_)
SumOfBytes(b) == IF b = <<>> THEN 0 ELSE Head(b) + SumOfBytes(Tail(b))

\* BE::Text::digest: a short string that depends on every byte; different
\* inputs may have the same digest.
digest(b) == <<48 + (SumOfBytes(b) % NumHashes)>>

\* A file to add is named by its path "d/<name>" and holds the record data.
PathOf(k) == <<100, SLASH>> \o k

\* A file of the same name in another directory, "e/<name>".
OtherPathOf(k) == <<101, SLASH>> \o k

RECURSIVE basename(_)
basename(path) ==
    IF \A j \in 1..Len(path) : path[j] # SLASH THEN path
    ELSE basename(Tail(path))

\* The bytes of a file: those of "e/<name>" differ from those of "d/<name>".
FileData(path) ==
    IF Head(path) = 100
    THEN DataOf(basename(path), LenOf(basename(path)))
    ELSE <<9>> \o DataOf(basename(path), LenOf(basename(path)))

\* validate_rs_type
validate_rs_type(type) ==
    IF type \in {"File", "BerkeleyDB", "Archive", "SQLite", "List"}
    THEN type ELSE "StrategyError"

\* What getopt has set so far.
ArgsInit ==
    [what_to_hash |-> "NOTHING", hash_pathname |-> "", kind |-> "Default",
     compress |-> FALSE, quiet |-> FALSE, stopOnDuplicate |-> TRUE,
     status |-> "EXIT_SUCCESS"]

Failed(p) == [p EXCEPT !.status = "EXIT_FAILURE"]

\* The getopt loop of procargs_make.
RECURSIVE getopt_make(_, _)
getopt_make(args, p) ==
    IF args = <<>> THEN p
    ELSE LET o == Head(args)
         IN  CASE o.opt = "c" ->
                    IF p.what_to_hash = "NOTHING"
                    THEN getopt_make(Tail(args),
                             [p EXCEPT !.what_to_hash = "FILECONTENTS"])
                    ELSE Failed(p)
               [] o.opt = "p" ->
                    IF p.what_to_hash = "NOTHING"
                    THEN getopt_make(Tail(args),
                             [p EXCEPT !.what_to_hash = "FILEPATH"])
                    ELSE Failed(p)
               [] o.opt = "h" ->
                    getopt_make(Tail(args),
                                [p EXCEPT !.hash_pathname = o.arg])
               [] o.opt = "f" ->
                    getopt_make(Tail(args),
                                [p EXCEPT !.stopOnDuplicate = FALSE])
               [] o.opt = "q" ->
                    getopt_make(Tail(args), [p EXCEPT !.quiet = TRUE])
               [] o.opt = "z" ->
                    getopt_make(Tail(args), [p EXCEPT !.compress = TRUE])
               [] o.opt = "t" ->
                    IF validate_rs_type(o.arg) = "StrategyError"
                    THEN Failed(p)
                    ELSE getopt_make(Tail(args),
                             [p EXCEPT !.kind = validate_rs_type(o.arg)])
               [] OTHER -> getopt_make(Tail(args), p)

\* A variant without the check for a compressed list.
procargs_make_compressesList(args) ==
    LET p == getopt_make(args, ArgsInit)
    IN  IF p.status = "EXIT_FAILURE" THEN p
        ELSE IF p.hash_pathname = "" /\ p.what_to_hash # "NOTHING"
        THEN Failed(p)
        ELSE IF p.hash_pathname # "" /\ p.what_to_hash = "NOTHING"
        THEN [p EXCEPT !.what_to_hash = "FILENAME"]
        ELSE p

\* procargs_make up to the confirmation.
procargs_make(args) ==
    LET p == getopt_make(args, ArgsInit)
    IN  IF p.status = "EXIT_FAILURE" THEN p
        ELSE IF p.hash_pathname = "" /\ p.what_to_hash # "NOTHING"
        THEN Failed(p)
        ELSE IF p.compress /\ p.kind = "List" THEN Failed(p)
        ELSE IF p.hash_pathname # "" /\ p.what_to_hash = "NOTHING"
        THEN [p EXCEPT !.what_to_hash = "FILENAME"]
        ELSE p

\* The getopt loop of procargs_merge.
RECURSIVE getopt_merge(_, _)
getopt_merge(args, p) ==
    IF args = <<>> THEN p
    ELSE LET o == Head(args)
         IN  CASE o.opt = "c" ->
                    IF p.what_to_hash = "NOTHING"
                    THEN getopt_merge(Tail(args),
                             [p EXCEPT !.what_to_hash = "FILECONTENTS"])
                    ELSE Failed(p)
               [] o.opt = "p" -> Failed(p)
               [] o.opt = "h" ->
                    getopt_merge(Tail(args),
                                 [p EXCEPT !.hash_pathname = o.arg])
               [] o.opt = "t" ->
                    IF validate_rs_type(o.arg) = "StrategyError"
                    THEN Failed(p)
                    ELSE getopt_merge(Tail(args),
                             [p EXCEPT !.kind = validate_rs_type(o.arg)])
               [] OTHER -> getopt_merge(Tail(args), p)

\* A variant of procargs_merge without the check for a hash method that has
\* no translation store.
procargs_merge_hashesWithoutTranslation(args) ==
    LET p == getopt_merge(args, ArgsInit)
    IN  IF p.status = "EXIT_FAILURE" THEN p
        ELSE IF child_rs = <<>> THEN Failed(p)
        ELSE IF merged_rs.exists THEN Failed(p)
        ELSE IF p.hash_pathname # "" /\ p.what_to_hash = "NOTHING"
        THEN [p EXCEPT !.what_to_hash = "FILENAME"]
        ELSE p

\* procargs_merge
procargs_merge(args) ==
    LET p == getopt_merge(args, ArgsInit)
    IN  IF p.status = "EXIT_FAILURE" THEN p
        ELSE IF child_rs = <<>> THEN Failed(p)
        ELSE IF merged_rs.exists THEN Failed(p)
        ELSE IF p.hash_pathname = "" /\ p.what_to_hash # "NOTHING"
        THEN Failed(p)
        ELSE IF p.hash_pathname # "" /\ p.what_to_hash = "NOTHING"
        THEN [p EXCEPT !.what_to_hash = "FILENAME"]
        ELSE p

\* The getopt loop of procargs_add; -h opens an existing store.
RECURSIVE getopt_add(_, _)
getopt_add(args, p) ==
    IF args = <<>> THEN p
    ELSE LET o == Head(args)
         IN  CASE o.opt = "c" ->
                    IF p.what_to_hash = "NOTHING"
                    THEN getopt_add(Tail(args),
                             [p EXCEPT !.what_to_hash = "FILECONTENTS"])
                    ELSE Failed(p)
               [] o.opt = "p" ->
                    IF p.what_to_hash = "NOTHING"
                    THEN getopt_add(Tail(args),
                             [p EXCEPT !.what_to_hash = "FILEPATH"])
                    ELSE Failed(p)
               [] o.opt = "f" ->
                    getopt_add(Tail(args),
                               [p EXCEPT !.stopOnDuplicate = FALSE])
               [] o.opt = "h" ->
                    IF openRecordStore(hash_rs) # "ok" THEN Failed(p)
                    ELSE getopt_add(Tail(args),
                                    [p EXCEPT !.hash_pathname = o.arg])
               [] OTHER -> getopt_add(Tail(args), p)

\* procargs_add
procargs_add(args) ==
    LET p == getopt_add(args, ArgsInit)
    IN  IF p.status = "EXIT_FAILURE" THEN p
        ELSE IF openRecordStore(merged_rs) # "ok" THEN Failed(p)
        ELSE IF p.hash_pathname = "" /\ p.what_to_hash # "NOTHING"
        THEN Failed(p)
        ELSE IF p.hash_pathname # "" /\ p.what_to_hash = "NOTHING"
        THEN [p EXCEPT !.what_to_hash = "FILENAME"]
        ELSE p

\* The kinds of store that createRecordStore and the merges can make;
\* Kind::Default is the BerkeleyDB kind.
DataKinds == {"Default", "BerkeleyDB", "Archive", "File", "SQLite"}

\* How a sub-command ends: the exit status and whether a diagnostic was
\* written to stderr.
Exit(status, diagnostic) ==
    /\ rpc' = "exit"
    /\ exitStatus' = status
    /\ cerr' = (cerr \/ diagnostic)

SetArgs(p) ==
    /\ kind' = p.kind
    /\ what_to_hash' = p.what_to_hash
    /\ hash_pathname' = p.hash_pathname
    /\ stopOnDuplicate' = p.stopOnDuplicate

\* makeListRecordStore: the rescan for two -s options and an existing -h
\* store, constructListRecordStore and the first modifyListRecordStore.  The
\* keys of the list are the subject of the list-view maintenance above; here
\* only the existence of the list is kept.
makeListRecordStore(p) ==
    \E rsCount \in {1, 2}, sourceOpens \in BOOLEAN,
       added \in {"EXIT_SUCCESS", "EXIT_FAILURE"} :
        IF \/ (p.hash_pathname # "" /\ openRecordStore(hash_rs) # "ok")
           \/ rsCount # 2
           \/ ~sourceOpens
           \/ merged_rs.exists
        THEN /\ Exit("EXIT_FAILURE", TRUE)
             /\ UNCHANGED created
        ELSE /\ created' = created \cup {"list"}
             /\ Exit(added, added = "EXIT_FAILURE")

\* make: procargs_make with its confirmation, then either the making of a
\* ListRecordStore or the creation of the store and of the hash translation
\* store.
make ==
    /\ rpc = "start"
    /\ action = "MAKE"
    /\ LET p == procargs_make(argv)
       IN  /\ SetArgs(p)
           /\ IF p.status = "EXIT_FAILURE"
              THEN /\ Exit("EXIT_FAILURE", TRUE)
                   /\ UNCHANGED <<merged_rs, hash_rs, created>>
              ELSE \E soundsGood \in (IF p.quiet THEN {TRUE} ELSE BOOLEAN) :
                   IF ~soundsGood
                   THEN /\ Exit("EXIT_FAILURE", FALSE)
                        /\ UNCHANGED <<merged_rs, hash_rs, created>>
                   ELSE IF p.kind = "List"
                   THEN /\ makeListRecordStore(p)
                        /\ UNCHANGED <<merged_rs, hash_rs>>
                   ELSE IF merged_rs.exists
                   THEN /\ Exit("EXIT_FAILURE", TRUE)
                        /\ UNCHANGED <<merged_rs, hash_rs, created>>
                   ELSE /\ merged_rs' = EmptyStore
                        /\ IF p.hash_pathname # "" /\ hash_rs.exists
                           THEN /\ created' = created \cup
                                    {IF p.compress THEN "compressed"
                                     ELSE "store"}
                                /\ Exit("EXIT_FAILURE", TRUE)
                                /\ UNCHANGED hash_rs
                           ELSE /\ created' = created
                                    \cup {IF p.compress THEN "compressed"
                                          ELSE "store"}
                                    \cup (IF p.hash_pathname # ""
                                          THEN {"hash"} ELSE {})
                                /\ hash_rs' = IF p.hash_pathname # ""
                                              THEN EmptyStore ELSE hash_rs
                                /\ rpc' = "insert"
                                /\ UNCHANGED <<exitStatus, cerr>>
    /\ rsIdx' = 0
    /\ UNCHANGED <<action, argv, child_rs, files, rsCursor>>

\* add: procargs_add opens the store and the hash translation store.
add ==
    /\ rpc = "start"
    /\ action = "ADD"
    /\ LET p == procargs_add(argv)
       IN  /\ SetArgs(p)
           /\ IF p.status = "EXIT_FAILURE"
              THEN Exit("EXIT_FAILURE", TRUE)
              ELSE /\ rpc' = "insert"
                   /\ UNCHANGED <<exitStatus, cerr>>
    /\ rsIdx' = 0
    /\ UNCHANGED <<action, argv, child_rs, files, merged_rs, hash_rs,
                   created, rsCursor>>

\* The file make_insert_contents is about to add, the key of the record
\* (the file name, or the digest when there is a hash translation store)
\* and the value of the translation.
NextFile == files[rsIdx + 1]

NextHashValue ==
    CASE what_to_hash = "FILECONTENTS" -> digest(FileData(NextFile))
      [] what_to_hash = "FILENAME" -> digest(basename(NextFile))
      [] what_to_hash = "FILEPATH" -> digest(NextFile)
      [] OTHER -> <<>>

NextKey ==
    IF hash_pathname = "" THEN basename(NextFile) ELSE NextHashValue

NextTranslation ==
    IF what_to_hash = "FILEPATH" THEN NextFile ELSE basename(NextFile)

\* rs->insert(key, buffer) with its catch of ObjectExists: the store
\* afterwards and whether the exception went on.
InsertOrReplace(rs, key, buffer, stop) ==
    IF ~containsKey(rs, key)
    THEN [store |-> StoreInsert(rs, key, buffer), threw |-> FALSE]
    ELSE IF stop THEN [store |-> rs, threw |-> TRUE]
    ELSE [store |-> StoreReplace(rs, key, buffer), threw |-> FALSE]

\* A variant that stops at a duplicate whatever -f says.
make_insert_contents_alwaysStops ==
    /\ rpc = "insert"
    /\ rsIdx < Len(files)
    /\ LET r == InsertOrReplace(merged_rs, NextKey, FileData(NextFile),
                                TRUE)
           h == IF hash_pathname = "" \/ r.threw
                THEN [store |-> hash_rs, threw |-> r.threw]
                ELSE InsertOrReplace(hash_rs, NextKey, NextTranslation,
                                     TRUE)
       IN  /\ merged_rs' = r.store
           /\ hash_rs' = h.store
           /\ IF ~h.threw
              THEN /\ rsIdx' = rsIdx + 1
                   /\ UNCHANGED <<rpc, exitStatus, cerr>>
              ELSE IF action = "MAKE"
              THEN /\ Exit("EXIT_FAILURE", TRUE)
                   /\ UNCHANGED rsIdx
              ELSE /\ cerr' = TRUE
                   /\ rsIdx' = rsIdx + 1
                   /\ UNCHANGED <<rpc, exitStatus>>
    /\ UNCHANGED <<action, argv, child_rs, files, created, kind,
                   what_to_hash, hash_pathname, stopOnDuplicate, rsCursor>>

\* make_insert_contents of the next file, called from make (which stops at a
\* failure) or from add (which ignores the return value).  cerr records the
\* reports of failures; the notice "Replacing..." of a forced replacement is
\* not one.
make_insert_contents ==
    /\ rpc = "insert"
    /\ rsIdx < Len(files)
    /\ LET r == InsertOrReplace(merged_rs, NextKey, FileData(NextFile),
                                stopOnDuplicate)
           h == IF hash_pathname = "" \/ r.threw
                THEN [store |-> hash_rs, threw |-> r.threw]
                ELSE InsertOrReplace(hash_rs, NextKey, NextTranslation,
                                     stopOnDuplicate)
       IN  /\ merged_rs' = r.store
           /\ hash_rs' = h.store
           /\ IF ~h.threw
              THEN /\ rsIdx' = rsIdx + 1
                   /\ UNCHANGED <<rpc, exitStatus, cerr>>
              ELSE IF action = "MAKE"
              THEN /\ Exit("EXIT_FAILURE", TRUE)
                   /\ UNCHANGED rsIdx
              ELSE /\ cerr' = TRUE
                   /\ rsIdx' = rsIdx + 1
                   /\ UNCHANGED <<rpc, exitStatus>>
    /\ UNCHANGED <<action, argv, child_rs, files, created, kind,
                   what_to_hash, hash_pathname, stopOnDuplicate, rsCursor>>

\* The end of the loop over the files: make and add return EXIT_SUCCESS.
filesDone ==
    /\ rpc = "insert"
    /\ rsIdx = Len(files)
    /\ Exit("EXIT_SUCCESS", FALSE)
    /\ UNCHANGED <<action, argv, child_rs, files, merged_rs, hash_rs,
                   created, kind, what_to_hash, hash_pathname,
                   stopOnDuplicate, rsIdx, rsCursor>>

\* BE::IO::RecordStore::mergeRecordStores: every record of every source, in
\* order, is inserted under its own key; an unopenable source or a key that
\* is already there ends the merge with an exception.
RECURSIVE mergeRecordStores(_, _, _, _)
mergeRecordStores(merged, sources, i, cursor) ==
    IF i > Len(sources) THEN [store |-> merged, threw |-> FALSE]
    ELSE IF openRecordStore(sources[i]) # "ok"
    THEN [store |-> merged, threw |-> TRUE]
    ELSE IF cursor = sources[i].count
    THEN mergeRecordStores(merged, sources, i + 1, 0)
    ELSE LET key == KeyAt(sources[i], cursor)
         IN  IF containsKey(merged, key)
             THEN [store |-> merged, threw |-> TRUE]
             ELSE mergeRecordStores(
                      StoreInsert(merged, key, sources[i].recs[key]),
                      sources, i, cursor + 1)

\* A variant of merge that creates the hash translation store first, so
\* that nothing is created when that fails.
merge_hashStoreFirst ==
    /\ rpc = "start"
    /\ action = "MERGE"
    /\ LET p == procargs_merge(argv)
       IN  /\ SetArgs(p)
           /\ IF p.status = "EXIT_FAILURE"
              THEN /\ Exit("EXIT_FAILURE", TRUE)
                   /\ UNCHANGED <<merged_rs, hash_rs, created>>
              ELSE IF p.kind \notin DataKinds
              THEN /\ Exit("EXIT_SUCCESS", TRUE)
                   /\ UNCHANGED <<merged_rs, hash_rs, created>>
              ELSE IF p.hash_pathname = ""
              THEN LET r == mergeRecordStores(EmptyStore, child_rs, 1, 0)
                   IN  /\ merged_rs' = r.store
                       /\ created' = created \cup {"store"}
                       /\ Exit("EXIT_SUCCESS", r.threw)
                       /\ UNCHANGED hash_rs
              ELSE IF hash_rs.exists
              THEN /\ Exit("EXIT_SUCCESS", TRUE)
                   /\ UNCHANGED <<merged_rs, hash_rs, created>>
              ELSE /\ merged_rs' = EmptyStore
                   /\ created' = created \cup {"store", "hash"}
                   /\ hash_rs' = EmptyStore
                   /\ rpc' = "open"
                   /\ UNCHANGED <<exitStatus, cerr>>
    /\ rsIdx' = 0
    /\ UNCHANGED <<action, argv, child_rs, files, rsCursor>>

\* merge: procargs_merge, then the plain merge as a whole or the start of
\* the hashing merge.  An exception of either is reported and merge returns
\* EXIT_SUCCESS.
merge ==
    /\ rpc = "start"
    /\ action = "MERGE"
    /\ LET p == procargs_merge(argv)
       IN  /\ SetArgs(p)
           /\ IF p.status = "EXIT_FAILURE"
              THEN /\ Exit("EXIT_FAILURE", TRUE)
                   /\ UNCHANGED <<merged_rs, hash_rs, created>>
              ELSE IF p.kind \notin DataKinds
              THEN /\ Exit("EXIT_SUCCESS", TRUE)
                   /\ UNCHANGED <<merged_rs, hash_rs, created>>
              ELSE IF p.hash_pathname = ""
              THEN LET r == mergeRecordStores(EmptyStore, child_rs, 1, 0)
                   IN  /\ merged_rs' = r.store
                       /\ created' = created \cup {"store"}
                       /\ Exit("EXIT_SUCCESS", r.threw)
                       /\ UNCHANGED hash_rs
              ELSE /\ merged_rs' = EmptyStore
                   /\ IF hash_rs.exists
                      THEN /\ created' = created \cup {"store"}
                           /\ Exit("EXIT_SUCCESS", TRUE)
                           /\ UNCHANGED hash_rs
                      ELSE /\ created' = created \cup {"store", "hash"}
                           /\ hash_rs' = EmptyStore
                           /\ rpc' = "open"
                           /\ UNCHANGED <<exitStatus, cerr>>
    /\ rsIdx' = 0
    /\ UNCHANGED <<action, argv, child_rs, files, rsCursor>>

\* mergeAndHashRecordStores: openRecordStore of the next source, or the end
\* of the loop over the sources.
openNextRecordStore ==
    /\ rpc = "open"
    /\ IF rsIdx = Len(child_rs)
       THEN /\ Exit("EXIT_SUCCESS", FALSE)
            /\ UNCHANGED <<rsIdx, rsCursor>>
       ELSE IF openRecordStore(child_rs[rsIdx + 1]) # "ok"
       THEN /\ Exit("EXIT_SUCCESS", TRUE)
            /\ UNCHANGED <<rsIdx, rsCursor>>
       ELSE /\ rsIdx' = rsIdx + 1
            /\ rsCursor' = 0
            /\ rpc' = "sequence"
            /\ UNCHANGED <<exitStatus, cerr>>
    /\ UNCHANGED <<action, argv, child_rs, files, merged_rs, hash_rs,
                   created, kind, what_to_hash, hash_pathname,
                   stopOnDuplicate>>

\* The hash of a record in mergeAndHashRecordStores.
HashOf(key, data) ==
    IF what_to_hash = "FILECONTENTS" THEN digest(data) ELSE digest(key)

\* A variant that stores the translation under the original key.
hashRecord_translatesUnderKey ==
    /\ rpc = "sequence"
    /\ rsCursor < child_rs[rsIdx].count
    /\ LET key == KeyAt(child_rs[rsIdx], rsCursor)
           data == child_rs[rsIdx].recs[key]
           hash == HashOf(key, data)
       IN  IF containsKey(merged_rs, hash) \/ containsKey(hash_rs, key)
           THEN /\ Exit("EXIT_SUCCESS", TRUE)
                /\ UNCHANGED <<merged_rs, hash_rs, rsCursor>>
           ELSE /\ merged_rs' = StoreInsert(merged_rs, hash, data)
                /\ hash_rs' = StoreInsert(hash_rs, key, key \o <<NUL>>)
                /\ rsCursor' = rsCursor + 1
                /\ UNCHANGED <<rpc, exitStatus, cerr>>
    /\ UNCHANGED <<action, argv, child_rs, files, created, kind,
                   what_to_hash, hash_pathname, stopOnDuplicate, rsIdx>>

\* One turn of the while loop that finds a record: sequence, digest, and the
\* two inserts.  The hash translation store was created empty and gets
\* exactly the hashes the merged store gets, so only the first insert can
\* find its key present.
hashRecord ==
    /\ rpc = "sequence"
    /\ rsCursor < child_rs[rsIdx].count
    /\ LET key == KeyAt(child_rs[rsIdx], rsCursor)
           data == child_rs[rsIdx].recs[key]
           hash == HashOf(key, data)
       IN  IF containsKey(merged_rs, hash)
           THEN /\ Exit("EXIT_SUCCESS", TRUE)
                /\ UNCHANGED <<merged_rs, hash_rs, rsCursor>>
           ELSE /\ merged_rs' = StoreInsert(merged_rs, hash, data)
                /\ IF containsKey(hash_rs, hash)
                   THEN /\ Exit("EXIT_SUCCESS", TRUE)
                        /\ UNCHANGED <<hash_rs, rsCursor>>
                   ELSE /\ hash_rs' = StoreInsert(hash_rs, hash,
                                                  key \o <<NUL>>)
                        /\ rsCursor' = rsCursor + 1
                        /\ UNCHANGED <<rpc, exitStatus, cerr>>
    /\ UNCHANGED <<action, argv, child_rs, files, created, kind,
                   what_to_hash, hash_pathname, stopOnDuplicate, rsIdx>>

\* sequence throws ObjectDoesNotExist: exhausted = true.
exhausted ==
    /\ rpc = "sequence"
    /\ rsCursor = child_rs[rsIdx].count
    /\ rpc' = "open"
    /\ UNCHANGED <<action, argv, child_rs, files, merged_rs, hash_rs,
                   created, kind, what_to_hash, hash_pathname,
                   stopOnDuplicate, rsIdx, rsCursor, exitStatus, cerr>>

\* The sources and files tried.
ChildChoices ==
    {NoStore} \cup
    {SourceStore([k \in ks |-> LenOf(k)]) :
        ks \in {{Key(1)}, {Key(1), Key(2)}, {Key(3)}}}

FileLists ==
    {<<PathOf(Key(1))>>, <<PathOf(Key(1)), PathOf(Key(2))>>,
     <<PathOf(Key(2)), PathOf(Key(1))>>,
     <<PathOf(Key(1)), OtherPathOf(Key(1)), PathOf(Key(2))>>}

ExistingStore == StoreInsert(EmptyStore, Key(1), DataOf(Key(1), 1))

InitRst ==
    /\ LrsIdle
    /\ OsIdle
    /\ MrgIdle
    /\ RshIdle
    /\ EqIdle
    /\ DiffIdle
    /\ DmpIdle
    /\ action \in {"MAKE", "ADD", "MERGE"}
    /\ argv \in ArgLists
    /\ rpc = "start"
    /\ child_rs \in IF action = "MERGE" THEN [1..2 -> ChildChoices]
                    ELSE {<<>>}
    /\ files \in IF action = "MERGE" THEN {<<>>} ELSE FileLists
    /\ merged_rs \in {NoStore, ExistingStore}
    /\ hash_rs \in {NoStore, EmptyStore}
    /\ created = {}
    /\ kind = "Default"
    /\ what_to_hash = "NOTHING"
    /\ hash_pathname = ""
    /\ stopOnDuplicate = TRUE
    /\ rsIdx = 0
    /\ rsCursor = 0
    /\ exitStatus = "none"
    /\ cerr = FALSE

NextRst ==
    /\ \/ make
       \/ add
       \/ make_insert_contents
       \/ filesDone
       \/ merge
       \/ openNextRecordStore
       \/ hashRecord
       \/ exhausted
    /\ UNCHANGED <<lrsVars, osVars, mrgVars, rshVars, eqVars, diffVars,
                 dmpVars>>

SpecRst == InitRst /\ [][NextRst]_vars

(***************************************************************************)
(* Vocabulary of the rstool properties.                                    *)
(***************************************************************************)
HasOpt(letter) == \E j \in 1..Len(argv) : argv[j].opt = letter

HasArg(letter, arg) == \E j \in 1..Len(argv) : argv[j] = Opt(letter, arg)

\* The value of a hash translation record read as a C string.
RECURSIVE ResolveKey(_)
ResolveKey(value) ==
    IF value = <<>> \/ Head(value) = NUL THEN <<>>
    ELSE <<Head(value)>> \o ResolveKey(Tail(value))

\* The hashing merge has created both stores and is between two records or
\* at its end.
HashingMerge ==
    /\ action = "MERGE"
    /\ rpc \in {"open", "sequence", "exit"}
    /\ "hash" \in created

(***************************************************************************)
(* C12: between the records of a hashing merge and at its end, the merged  *)
(* store and the hash translation store hold the same hashes, one entry    *)
(* each, and for every hash the translation read back is the key of the    *)
(* source record whose data the merged store holds under that hash.        *)
(***************************************************************************)
C12_HashTranslation ==
    HashingMerge =>
        /\ DOMAIN hash_rs.recs = DOMAIN merged_rs.recs
        /\ hash_rs.count = Cardinality(DOMAIN hash_rs.recs)
        /\ merged_rs.count = Cardinality(DOMAIN merged_rs.recs)
        /\ \A h \in DOMAIN merged_rs.recs :
              \E i \in 1..rsIdx : \E k \in DOMAIN child_rs[i].recs :
                  /\ HashOf(k, child_rs[i].recs[k]) = h
                  /\ merged_rs.recs[h] = child_rs[i].recs[k]
                  /\ ResolveKey(hash_rs.recs[h]) = k

\* merge -h H of {f1, f2} and {f3} has ended with three hashed records.
C12_Witness ==
    /\ HashingMerge
    /\ rpc = "exit"
    /\ ~cerr
    /\ what_to_hash = "FILENAME"
    /\ merged_rs.count = 3
    /\ ResolveKey(hash_rs.recs[digest(Key(2))]) = Key(2)
    /\ hash_rs.recs[digest(Key(2))] # Key(2)

(***************************************************************************)
(* C13: a sub-command that wrote a diagnostic to stderr ends with a        *)
(* non-zero exit status.                                                   *)
(***************************************************************************)
C13_ExitStatus ==
    (rpc = "exit" /\ cerr) => exitStatus = "EXIT_FAILURE"

\* make or merge is about to process its arguments.
MakeOrMergeStarts ==
    /\ rpc = "start"
    /\ action \in {"MAKE", "MERGE"}

RejectedBeforeCreation ==
    /\ rpc' = "exit"
    /\ exitStatus' = "EXIT_FAILURE"
    /\ cerr'
    /\ created' = {}
    /\ merged_rs' = merged_rs
    /\ hash_rs' = hash_rs

(***************************************************************************)
(* C14, as stated: make and merge with -h and without -c and -p fail in    *)
(* argument processing and no store is created.                            *)
(***************************************************************************)
C14_TranslationNeedsSubject ==
    [][(MakeOrMergeStarts /\ HasOpt("h") /\ ~HasOpt("c") /\ ~HasOpt("p"))
          => RejectedBeforeCreation]_vars

(***************************************************************************)
(* C14, amended: make and merge with a hash subject (-c or -p) and without *)
(* -h fail in argument processing and no store is created; with -h and     *)
(* without a subject the stores that are created are keyed by the hash of  *)
(* the file name.                                                          *)
(***************************************************************************)
C14_SubjectNeedsTranslation ==
    [][MakeOrMergeStarts =>
          /\ ((HasOpt("c") \/ HasOpt("p")) /\ ~HasOpt("h"))
                => RejectedBeforeCreation
          /\ (HasOpt("h") /\ ~HasOpt("c") /\ ~HasOpt("p")
                  /\ "hash" \in created')
                => what_to_hash' = "FILENAME"
      ]_vars

\* merge -h H: both stores were made and the records are keyed by the digest
\* of their keys.
C14_Witness ==
    /\ action = "MERGE"
    /\ argv = <<Opt("h", "H")>>
    /\ rpc = "exit"
    /\ exitStatus = "EXIT_SUCCESS"
    /\ created = {"store", "hash"}
    /\ what_to_hash = "FILENAME"
    /\ digest(Key(1)) \in DOMAIN merged_rs.recs

\* The type that the -t options select: the last one given.
RECURSIVE SelectedType(_)
SelectedType(args) ==
    IF args = <<>> THEN "Default"
    ELSE IF args[Len(args)].opt = "t" THEN args[Len(args)].arg
    ELSE SelectedType(SubSeq(args, 1, Len(args) - 1))

NumHandleKeys == 2

HandleKeys == {Key(n) : n \in 1..NumHandleKeys}

\* Record contents: empty, one byte, and two bytes starting with NUL.
HValues == {<<>>, <<7>>, <<NUL, 7>>}

Descriptions == {"d0", "d1"}

Pathnames == {"rs", "rs2"}

\* Values of the mode argument of RSObject_init: omitted, the two modes, and
\* a value that is neither.
ModeArgs == {"omitted", "ReadOnly", "ReadWrite", "invalid"}

Ret(status) == [NoRet EXCEPT !.status = status]

Call(name, key, data) ==
    [name |-> name, key |-> key, data |-> data, mode |-> ""]

\* A call that changed nothing but its own result.
Returns(call, ret) ==
    /\ hCall' = call
    /\ hRet' = ret
    /\ UNCHANGED <<rsStore, rsDescription, rsPathname, binding, hMode,
                   pyCursor, seqPos, pass>>

\* A call that changed the store: the running pass is no longer a pass over
\* one unchanging store.
Mutates(call) ==
    /\ hCall' = call
    /\ hRet' = Ret("ok")
    /\ pass' = [keys |-> <<>>, clean |-> FALSE]
    /\ UNCHANGED <<binding, hMode, pyCursor, seqPos>>

\* DBRecordStore::read
read(rs, key) == rs.recs[key]

\* DBRecordStore::length
length(rs, key) == Len(rs.recs[key])

\* RecordStore::getCount
getCount(rs) == rs.count

\* DBRecordStore::remove of a key the store has.
StoreRemove(rs, key) ==
    [rs EXCEPT !.recs = [k \in DOMAIN rs.recs \ {key} |-> rs.recs[k]],
               !.count = @ - 1]

\* RSObject_new and RSObject_init: open the store at the pathname, or
\* create it when a type is given.
RSObject_init(mode, withType, desc) ==
    /\ hMode = "none"
    /\ hCall' = [Call("init", <<>>, <<>>) EXCEPT !.mode = mode]
    /\ pyCursor' = "START"
    /\ pass' = NewPass
    /\ seqPos' = 0
    /\ UNCHANGED rsPathname
    /\ IF mode = "invalid"
       THEN /\ hRet' = Ret("parameterException")
            /\ UNCHANGED <<rsStore, rsDescription, binding, hMode>>
       ELSE IF ~withType
       THEN IF rsStore.exists
            THEN /\ hMode' = IF mode = "omitted" THEN "ReadOnly" ELSE mode
                 /\ binding' = "python"
                 /\ hRet' = Ret("ok")
                 /\ UNCHANGED <<rsStore, rsDescription>>
            ELSE /\ hRet' = Ret("ObjectDoesNotExist")
                 /\ UNCHANGED <<rsStore, rsDescription, binding, hMode>>
       ELSE IF rsStore.exists
            THEN /\ hRet' = Ret("ObjectExists")
                 /\ UNCHANGED <<rsStore, rsDescription, binding, hMode>>
            ELSE /\ rsStore' = EmptyStore
                 /\ rsDescription' = desc
                 /\ hMode' = "ReadWrite"
                 /\ binding' = "python"
                 /\ hRet' = Ret("ok")

\* RSObject_dealloc
RSObject_dealloc ==
    /\ binding = "python"
    /\ hCall' = Call("dealloc", <<>>, <<>>)
    /\ hRet' = Ret("ok")
    /\ hMode' = "none"
    /\ binding' = "none"
    /\ UNCHANGED <<rsStore, rsDescription, rsPathname, pyCursor, seqPos,
                   pass>>

\* RSObject_iter under which the cursor is left where it was.
RSObject_iter_keepsCursor ==
    /\ binding = "python"
    /\ hCall' = Call("iter", <<>>, <<>>)
    /\ hRet' = Ret("ok")
    /\ pass' = NewPass
    /\ UNCHANGED <<rsStore, rsDescription, rsPathname, binding, hMode,
                   pyCursor, seqPos>>

\* RSObject_iter
RSObject_iter ==
    /\ binding = "python"
    /\ hCall' = Call("iter", <<>>, <<>>)
    /\ hRet' = Ret("ok")
    /\ pyCursor' = "START"
    /\ pass' = NewPass
    /\ UNCHANGED <<rsStore, rsDescription, rsPathname, binding, hMode,
                   seqPos>>

\* RSObject_iternext: DBRecordStore::sequence from the start on the first
\* call after RSObject_iter and from the store's cursor otherwise;
\* ObjectDoesNotExist becomes StopIteration.
RSObject_iternext ==
    /\ binding = "python"
    /\ hCall' = Call("next", <<>>, <<>>)
    /\ pyCursor' = "NEXT"
    /\ LET firstTime == pyCursor = "START"
           pos == IF firstTime THEN 0 ELSE seqPos
       IN IF pos < Cardinality(DOMAIN rsStore.recs)
          THEN LET k == KeyAt(rsStore, pos)
               IN /\ hRet' = [status |-> "ok", key |-> k,
                              data |-> read(rsStore, k),
                              size |-> length(rsStore, k)]
                  /\ seqPos' = pos + 1
                  /\ pass' = IF pass.clean
                             THEN [pass EXCEPT !.keys = Append(@, k)]
                             ELSE pass
          ELSE /\ hRet' = Ret("StopIteration")
               /\ seqPos' = pos
               /\ UNCHANGED pass
    /\ UNCHANGED <<rsStore, rsDescription, rsPathname, binding, hMode>>

\* RSObject_read
RSObject_read(key) ==
    /\ binding = "python"
    /\ IF containsKey(rsStore, key)
       THEN Returns(Call("read", key, <<>>),
                    [status |-> "ok", key |-> key,
                     data |-> read(rsStore, key),
                     size |-> length(rsStore, key)])
       ELSE Returns(Call("read", key, <<>>), Ret("ObjectDoesNotExist"))

\* RSObject_length
RSObject_length(key) ==
    /\ binding = "python"
    /\ IF containsKey(rsStore, key)
       THEN Returns(Call("length", key, <<>>),
                    [Ret("ok") EXCEPT !.size = length(rsStore, key)])
       ELSE Returns(Call("length", key, <<>>), Ret("ObjectDoesNotExist"))

\* RSObject_count
RSObject_count ==
    /\ binding = "python"
    /\ Returns(Call("count", <<>>, <<>>),
               [Ret("ok") EXCEPT !.size = getCount(rsStore)])

\* RSObject_insert under which the value is copied as a C string, up to its
\* first NUL.
RSObject_insert_copiesCString(key, value) ==
    /\ binding = "python"
    /\ LET call == Call("insert", key, value)
       IN IF hMode = "ReadOnly"
          THEN Returns(call, Ret("StrategyError"))
          ELSE IF containsKey(rsStore, key)
          THEN Returns(call, Ret("ObjectExists"))
          ELSE /\ Mutates(call)
               /\ rsStore' = StoreInsert(rsStore, key, ResolveKey(value))
               /\ UNCHANGED <<rsDescription, rsPathname>>

\* RSObject_insert: the pyValueSize bytes of the value are copied and
\* inserted under the key.
RSObject_insert(key, value) ==
    /\ binding = "python"
    /\ LET call == Call("insert", key, value)
           pyValueSize == Len(value)
           cValue == SubSeq(value, 1, pyValueSize)
       IN IF hMode = "ReadOnly"
          THEN Returns(call, Ret("StrategyError"))
          ELSE IF containsKey(rsStore, key)
          THEN Returns(call, Ret("ObjectExists"))
          ELSE /\ Mutates(call)
               /\ rsStore' = StoreInsert(rsStore, key, cValue)
               /\ UNCHANGED <<rsDescription, rsPathname>>

\* RSObject_replace under which an absent key is inserted.
RSObject_replace_insertsAbsent(key, value) ==
    /\ binding = "python"
    /\ LET call == Call("replace", key, value)
       IN IF hMode = "ReadOnly"
          THEN Returns(call, Ret("StrategyError"))
          ELSE /\ Mutates(call)
               /\ rsStore' = IF containsKey(rsStore, key)
                             THEN StoreReplace(rsStore, key, value)
                             ELSE StoreInsert(rsStore, key, value)
               /\ UNCHANGED <<rsDescription, rsPathname>>

\* RSObject_replace
RSObject_replace(key, value) ==
    /\ binding = "python"
    /\ LET call == Call("replace", key, value)
           pyValueSize == Len(value)
           cValue == SubSeq(value, 1, pyValueSize)
       IN IF hMode = "ReadOnly"
          THEN Returns(call, Ret("StrategyError"))
          ELSE IF ~containsKey(rsStore, key)
          THEN Returns(call, Ret("ObjectDoesNotExist"))
          ELSE /\ Mutates(call)
               /\ rsStore' = StoreReplace(rsStore, key, cValue)
               /\ UNCHANGED <<rsDescription, rsPathname>>

\* RSObject_remove under which the count is left as it was.
RSObject_remove_keepsCount(key) ==
    /\ binding = "python"
    /\ LET call == Call("remove", key, <<>>)
       IN IF hMode = "ReadOnly"
          THEN Returns(call, Ret("StrategyError"))
          ELSE IF ~containsKey(rsStore, key)
          THEN Returns(call, Ret("ObjectDoesNotExist"))
          ELSE /\ Mutates(call)
               /\ rsStore' = [StoreRemove(rsStore, key)
                                 EXCEPT !.count = rsStore.count]
               /\ UNCHANGED <<rsDescription, rsPathname>>

\* RSObject_remove
RSObject_remove(key) ==
    /\ binding = "python"
    /\ LET call == Call("remove", key, <<>>)
       IN IF hMode = "ReadOnly"
          THEN Returns(call, Ret("StrategyError"))
          ELSE IF ~containsKey(rsStore, key)
          THEN Returns(call, Ret("ObjectDoesNotExist"))
          ELSE /\ Mutates(call)
               /\ rsStore' = StoreRemove(rsStore, key)
               /\ UNCHANGED <<rsDescription, rsPathname>>

\* RSObject_changeDescription under which the mode of the handle is not
\* looked at.
RSObject_changeDescription_ignoresMode(desc) ==
    /\ binding = "python"
    /\ hCall' = Call("changeDescription", <<>>, <<>>)
    /\ hRet' = Ret("ok")
    /\ rsDescription' = desc
    /\ UNCHANGED <<rsStore, rsPathname, binding, hMode, pyCursor, seqPos,
                   pass>>

\* RSObject_changeDescription
RSObject_changeDescription(desc) ==
    /\ binding = "python"
    /\ LET call == Call("changeDescription", <<>>, <<>>)
       IN IF hMode = "ReadOnly"
          THEN Returns(call, Ret("StrategyError"))
          ELSE /\ hCall' = call
               /\ hRet' = Ret("ok")
               /\ rsDescription' = desc
               /\ UNCHANGED <<rsStore, rsPathname, binding, hMode, pyCursor,
                              seqPos, pass>>

\* RecordStore::move, on the handle itself: neither interface exports it.
move(pathname) ==
    /\ hMode # "none"
    /\ LET call == Call("move", <<>>, <<>>)
       IN IF hMode = "ReadOnly"
          THEN Returns(call, Ret("StrategyError"))
          ELSE /\ hCall' = call
               /\ hRet' = Ret("ok")
               /\ rsPathname' = pathname
               /\ UNCHANGED <<rsStore, rsDescription, binding, hMode,
                              pyCursor, seqPos, pass>>

\* R openRecordStore: RecordStoreContainer opens the store ReadOnly.
RecordStoreContainer ==
    /\ hMode = "none"
    /\ hCall' = Call("openRecordStore", <<>>, <<>>)
    /\ UNCHANGED <<rsStore, rsDescription, rsPathname, pyCursor, seqPos,
                   pass>>
    /\ IF rsStore.exists
       THEN /\ hMode' = "ReadOnly"
            /\ binding' = "R"
            /\ hRet' = Ret("ok")
       ELSE /\ hRet' = Ret("ObjectDoesNotExist")
            /\ UNCHANGED <<binding, hMode>>

\* R closeRecordStore
closeRecordStore ==
    /\ binding = "R"
    /\ hCall' = Call("closeRecordStore", <<>>, <<>>)
    /\ hRet' = Ret("ok")
    /\ hMode' = "none"
    /\ binding' = "none"
    /\ UNCHANGED <<rsStore, rsDescription, rsPathname, pyCursor, seqPos,
                   pass>>

\* R lengthOfKey
lengthOfKey(key) ==
    /\ binding = "R"
    /\ IF containsKey(rsStore, key)
       THEN Returns(Call("length", key, <<>>),
                    [Ret("ok") EXCEPT !.size = length(rsStore, key)])
       ELSE Returns(Call("length", key, <<>>), Ret("ObjectDoesNotExist"))

\* R read: a RawVector of data.size() bytes copied from the record.
R_read(key) ==
    /\ binding = "R"
    /\ IF containsKey(rsStore, key)
       THEN LET data == read(rsStore, key)
                rv == [i \in 1..Len(data) |-> data[i]]
            IN Returns(Call("read", key, <<>>),
                       [status |-> "ok", key |-> key, data |-> rv,
                        size |-> Len(rv)])
       ELSE Returns(Call("read", key, <<>>), Ret("ObjectDoesNotExist"))

\* The loop of readAllKeys and readAllKeysAndData after the first key:
\* sequenceKey(BE_RECSTORE_SEQ_NEXT) for i = 1 .. numElements - 1, ended
\* early by ObjectDoesNotExist.
RECURSIVE SequenceNext(_, _, _, _, _)
SequenceNext(rs, pos, i, numElements, got) ==
    IF i >= numElements THEN [keys |-> got, pos |-> pos]
    ELSE IF pos >= Cardinality(DOMAIN rs.recs)
    THEN [keys |-> got, pos |-> pos]
    ELSE SequenceNext(rs, pos + 1, i + 1, numElements,
                      Append(got, KeyAt(rs, pos)))

\* A variant of readAllKeys whose first read continues from the cursor.
readAllKeys_fromCursor(rs, cursor) ==
    LET numElements == getCount(rs)
    IN  IF cursor >= Cardinality(DOMAIN rs.recs)
        THEN SequenceNext(rs, cursor, 1, numElements, <<>>)
        ELSE SequenceNext(rs, cursor + 1, 1, numElements,
                          <<KeyAt(rs, cursor)>>)

\* readAllKeys: sequenceKey(BE_RECSTORE_SEQ_START), whose ObjectDoesNotExist
\* is passed over, then the loop.  cursor is where earlier calls left the
\* store's cursor.
readAllKeys(rs, cursor) ==
    LET numElements == getCount(rs)
    IN  IF Cardinality(DOMAIN rs.recs) = 0
        THEN SequenceNext(rs, 0, 1, numElements, <<>>)
        ELSE SequenceNext(rs, 1, 1, numElements, <<KeyAt(rs, 0)>>)

\* readAllKeysAndData: the same reads with sequence, and a list of
\* numElements data whose entries are set for the records read.
readAllKeysAndData(rs, cursor) ==
    LET r == readAllKeys(rs, cursor)
    IN  [keys |-> r.keys, pos |-> r.pos,
         datas |-> [i \in 1..getCount(rs) |->
                       IF i <= Len(r.keys) THEN read(rs, r.keys[i])
                       ELSE <<>>]]

\* R readAll
readAll(readData) ==
    /\ binding = "R"
    /\ hCall' = [Call("readAll", <<>>, <<>>) EXCEPT
                    !.mode = IF readData THEN "readData" ELSE ""]
    /\ LET r == IF readData THEN readAllKeysAndData(rsStore, seqPos)
                ELSE [keys |-> readAllKeys(rsStore, seqPos).keys,
                      pos |-> readAllKeys(rsStore, seqPos).pos,
                      datas |-> <<>>]
       IN  /\ hRet' = [status |-> "ok", key |-> <<>>, data |-> <<>>,
                       size |-> 0, keys |-> r.keys, datas |-> r.datas]
           /\ seqPos' = r.pos
    /\ UNCHANGED <<rsStore, rsDescription, rsPathname, binding, hMode,
                   pyCursor, pass>>

\* The stores that may exist before the first handle is opened.
InitialStores ==
    {NoStore} \cup
    {[exists |-> TRUE, recs |-> [k \in ks |-> <<7>>],
      count |-> Cardinality(ks)] : ks \in SUBSET HandleKeys}

InitRsh ==
    /\ LrsIdle
    /\ OsIdle
    /\ MrgIdle
    /\ RstIdle
    /\ EqIdle
    /\ DiffIdle
    /\ DmpIdle
    /\ rsStore \in InitialStores
    /\ rsDescription = "d0"
    /\ rsPathname = "rs"
    /\ binding = "none"
    /\ hMode = "none"
    /\ pyCursor = "START"
    /\ seqPos = 0
    /\ pass = NewPass
    /\ hCall = NoCall
    /\ hRet = NoRet

NextRsh ==
    /\ \/ \E mode \in ModeArgs, withType \in BOOLEAN, desc \in Descriptions :
              RSObject_init(mode, withType, desc)
       \/ RSObject_dealloc
       \/ RSObject_iter
       \/ RSObject_iternext
       \/ \E key \in HandleKeys : RSObject_read(key)
       \/ \E key \in HandleKeys : RSObject_length(key)
       \/ RSObject_count
       \/ \E key \in HandleKeys, value \in HValues :
              RSObject_insert(key, value)
       \/ \E key \in HandleKeys, value \in HValues :
              RSObject_replace(key, value)
       \/ \E key \in HandleKeys : RSObject_remove(key)
       \/ \E desc \in Descriptions : RSObject_changeDescription(desc)
       \/ \E pathname \in Pathnames : move(pathname)
       \/ RecordStoreContainer
       \/ closeRecordStore
       \/ \E key \in HandleKeys : lengthOfKey(key)
       \/ \E key \in HandleKeys : R_read(key)
       \/ \E readData \in BOOLEAN : readAll(readData)
    /\ UNCHANGED <<lrsVars, osVars, mrgVars, rstVars, eqVars, diffVars,
                 dmpVars>>

SpecRsh == InitRsh /\ [][NextRsh]_vars

(***************************************************************************)
(* Vocabulary of the handle properties.                                    *)
(***************************************************************************)

\* The keys of a full sequence pass: START, then NEXT until exhaustion.
RECURSIVE FullPass(_, _)
FullPass(rs, pos) ==
    IF pos < Cardinality(DOMAIN rs.recs)
    THEN <<KeyAt(rs, pos)>> \o FullPass(rs, pos + 1)
    ELSE <<>>

NoRepeats(s) == \A i, j \in 1..Len(s) : s[i] = s[j] => i = j

IsPrefix(s, t) == Len(s) <= Len(t) /\ SubSeq(t, 1, Len(s)) = s

Exhausted == hCall.name = "next" /\ hRet.status = "StopIteration"

\* C16: over a store that no call changes meanwhile, the keys given since
\* iter(rs) are distinct keys of the store; when next signals StopIteration
\* every key of the store has been given exactly once; iter(rs), after
\* exhaustion or in the middle of a pass, sets the cursor to START, and the
\* next that follows gives the first key of the store again.
C16_VisitedOnce ==
    (binding = "python" /\ pass.clean) =>
        /\ NoRepeats(pass.keys)
        /\ IsPrefix(pass.keys, FullPass(rsStore, 0))
        /\ Exhausted => Range(pass.keys) = DOMAIN rsStore.recs

C16_Restart ==
    /\ (hCall' = Call("iter", <<>>, <<>>) /\ binding = "python") =>
           (pyCursor' = "START" /\ pass'.keys = <<>>)
    /\ (hCall' = Call("next", <<>>, <<>>) /\ pyCursor = "START") =>
           IF DOMAIN rsStore.recs = {}
           THEN hRet'.status = "StopIteration"
           ELSE hRet' = [status |-> "ok", key |-> KeyAt(rsStore, 0),
                         data |-> rsStore.recs[KeyAt(rsStore, 0)],
                         size |-> Len(rsStore.recs[KeyAt(rsStore, 0)])]

C16_IteratorPass == [](C16_VisitedOnce) /\ [][C16_Restart]_vars

\* A pass over a store of two keys that has given both and then signalled
\* exhaustion.
C16_Witness ==
    /\ Exhausted
    /\ pass.clean
    /\ pass.keys = <<Key(1), Key(2)>>
    /\ DOMAIN rsStore.recs = {Key(1), Key(2)}

\* C17: whatever calls have been made on the handle, successful or failing,
\* getCount() is the number of keys a full sequence pass (START, then NEXT
\* until exhaustion) gives, and RSObject_count returns that number.
C17_CountIsPassLength ==
    /\ rsStore.exists => getCount(rsStore) = Len(FullPass(rsStore, 0))
    /\ (hCall.name = "count" /\ hRet.status = "ok") =>
           hRet.size = Len(FullPass(rsStore, 0))

\* A remove has just left one of two keys.
C17_Witness ==
    /\ hCall = Call("remove", Key(1), <<>>)
    /\ hRet.status = "ok"
    /\ getCount(rsStore) = 1
    /\ FullPass(rsStore, 0) = <<Key(2)>>

ExistenceErrors == {"ObjectExists", "ObjectDoesNotExist"}

\* C18: on a handle that may write, insert of a present key fails with
\* ObjectExists and replace and remove of an absent key fail with
\* ObjectDoesNotExist; read and length of an absent key fail with
\* ObjectDoesNotExist on every handle; a call that fails so leaves the keys,
\* the data of every record and the count as they were.
C18_Call ==
    LET present == containsKey(rsStore, hCall'.key)
    IN /\ (hMode = "ReadWrite" /\ hCall'.name = "insert" /\ present) =>
              hRet'.status = "ObjectExists"
       /\ (hMode = "ReadWrite" /\ hCall'.name \in {"replace", "remove"}
              /\ ~present) =>
              hRet'.status = "ObjectDoesNotExist"
       /\ (hMode # "none" /\ hCall'.name \in {"read", "length"}
              /\ ~present) =>
              hRet'.status = "ObjectDoesNotExist"
       /\ (hCall'.name \in {"insert", "replace", "remove", "read", "length"}
              /\ hRet'.status \in ExistenceErrors) =>
              /\ DOMAIN rsStore'.recs = DOMAIN rsStore.recs
              /\ \A k \in DOMAIN rsStore.recs :
                     rsStore'.recs[k] = rsStore.recs[k]
              /\ getCount(rsStore') = getCount(rsStore)

C18_ExistenceErrors == [][C18_Call]_vars

\* An insert of a present key has failed and the record is as it was.
C18_Witness ==
    /\ hCall = Call("insert", Key(1), <<NUL, 7>>)
    /\ hRet.status = "ObjectExists"
    /\ hMode = "ReadWrite"
    /\ read(rsStore, Key(1)) = <<7>>
    /\ getCount(rsStore) = 1

\* mkrecstor VerifyRecord: the record under the key has the size of the
\* file and, when that is not zero, its bytes.
VerifyRecord(rs, key, fileData) ==
    IF ~containsKey(rs, key)
    THEN FALSE
    ELSE LET ui64Length == length(rs, key)
         IN IF ui64Length # Len(fileData)
            THEN FALSE
            ELSE IF ui64Length > 0
            THEN Len(read(rs, key)) = ui64Length
                 /\ read(rs, key) = fileData
            ELSE TRUE

Stores(name) == hCall'.name = name /\ hRet'.status = "ok"

\* C19: after insert(k, v) or replace(k, v) succeeds, read(k) is v and
\* length(k) is len(v), for the empty v as for any other; a record stays as
\* it is under every call that does not replace or remove it; and the read
\* and length calls of both interfaces return the stored bytes and their
\* number.
C19_Call ==
    /\ (Stores("insert") \/ Stores("replace")) =>
           /\ read(rsStore', hCall'.key) = hCall'.data
           /\ length(rsStore', hCall'.key) = Len(hCall'.data)
           /\ VerifyRecord(rsStore', hCall'.key, hCall'.data)
    /\ \A k \in DOMAIN rsStore.recs :
           ~(hCall'.key = k /\ (Stores("replace") \/ Stores("remove"))) =>
               /\ containsKey(rsStore', k)
               /\ read(rsStore', k) = read(rsStore, k)
               /\ length(rsStore', k) = length(rsStore, k)
    /\ Stores("read") =>
           /\ hRet'.data = read(rsStore, hCall'.key)
           /\ hRet'.size = Len(read(rsStore, hCall'.key))
    /\ Stores("length") => hRet'.size = Len(read(rsStore, hCall'.key))

C19_RoundTrip == [][C19_Call]_vars

\* A read has returned the two bytes, the first of them NUL, that an insert
\* or a replace stored.
C19_Witness ==
    /\ hCall = Call("read", Key(1), <<>>)
    /\ hRet.status = "ok"
    /\ hRet.data = <<NUL, 7>>
    /\ hRet.size = 2
    /\ VerifyRecord(rsStore, Key(1), <<NUL, 7>>)
    /\ VerifyRecord(rsStore, Key(2), <<>>)

MutatingCalls == {"insert", "replace", "remove", "changeDescription", "move"}

\* C20: a handle of the R interface is ReadOnly, and so is one that
\* RSObject_init opens with the mode omitted; on a ReadOnly handle every
\* insert, replace, remove, changeDescription and move fails, and no call
\* on the handle changes the keys, the data, the count, the description or
\* the pathname of the store.
C20_Call ==
    /\ (hCall'.name = "init" /\ hCall'.mode \in {"omitted", "ReadOnly"}
           /\ rsStore.exists /\ hRet'.status = "ok") =>
           hMode' = "ReadOnly"
    /\ (hMode = "ReadOnly" /\ hCall'.name \in MutatingCalls) =>
           hRet'.status = "StrategyError"
    /\ hMode = "ReadOnly" =>
           /\ rsStore' = rsStore
           /\ rsDescription' = rsDescription
           /\ rsPathname' = rsPathname

C20_ReadOnlyRejects ==
    [](binding = "R" => hMode = "ReadOnly") /\ [][C20_Call]_vars

\* A ReadOnly handle of the Python interface has rejected changeDescription.
C20_Witness ==
    /\ binding = "python"
    /\ hMode = "ReadOnly"
    /\ hCall.name = "changeDescription"
    /\ hRet.status = "StrategyError"
    /\ rsDescription = "d0"
    /\ getCount(rsStore) = NumHandleKeys

(***************************************************************************)
(* Further properties of the list-view, the OrderedSet, rstool and the     *)
(* other tools.                                                            *)
(***************************************************************************)
\* A list without the keys of a set, the others in their order.
Without(list, K) == SelectSeq(list, LAMBDA k : k \notin K)

\* C21: removeKeysFromListRecordStore(K) computes, and its rename puts in
\* the KeyList file, the list read before the call without the keys of K,
\* the other keys in their order; a key of K the list lacks is no error:
\* remove never reports ObjectDoesNotExist; the source store is as it was
\* after every step of a remove.
C21_Step ==
    /\ (pc = "idle" /\ op' = "remove" /\ pc' = "createTmp") =>
           existingKeys'.elements = Without(ListedKeys, Range(opKeys'))
    /\ (op = "remove" /\ pc = "rename" /\ pc' = "updateCount") =>
           /\ WrittenKeys' = Without(ListedKeys, Range(opKeys))
           /\ ListedKeys' = Without(ListedKeys, Range(opKeys))
    /\ op' = "remove" => srcStore' = srcStore

C21_RemoveKeys ==
    /\ [](op = "remove" => (outcome # "ObjectDoesNotExist" /\ badKeys = <<>>))
    /\ [][C21_Step]_vars

\* A remove of a listed key and of a key the list lacks is about to rename:
\* the KeyList file still holds both keys, the new list the one that stays.
C21_Witness ==
    /\ op = "remove"
    /\ pc = "rename"
    /\ Len(ListedKeys) = 2
    /\ \E k \in Range(opKeys) : k \notin Range(ListedKeys)
    /\ \E k \in Range(opKeys) : k \in Range(ListedKeys)
    /\ Len(existingKeys.elements) = 1
    /\ SplitLines(tmpFile.bytes, <<>>) = existingKeys.elements
    /\ srcStore.exists

(***************************************************************************)
(* A FASTER and a SMALLER OrderedSet under the same sequence of calls.     *)
(***************************************************************************)
Result(flag, n) == [flag |-> flag, n |-> n]

BothPushBack(v) ==
    /\ fast' = push_back(fast, v).set
    /\ small' = push_back(small, v).set
    /\ eqRet' = <<Result(push_back(fast, v).inserted, 0),
                  Result(push_back(small, v).inserted, 0)>>
    /\ eqOp' = [name |-> "push_back", arg |-> v]

BothErase(v) ==
    /\ fast' = erase(fast, v)
    /\ small' = erase(small, v)
    /\ eqRet' = <<NoResult, NoResult>>
    /\ eqOp' = [name |-> "erase", arg |-> v]

\* erase(iterator) at the same distance from begin() in both sets.
BothErasePos(p) ==
    /\ p <= size(fast)
    /\ p <= size(small)
    /\ fast' = erasePos(fast, p)
    /\ small' = erasePos(small, p)
    /\ eqRet' = <<NoResult, NoResult>>
    /\ eqOp' = [name |-> "erasePos", arg |-> p]

BothSize ==
    /\ eqRet' = <<Result(FALSE, size(fast)), Result(FALSE, size(small))>>
    /\ eqOp' = [name |-> "size", arg |-> 0]
    /\ UNCHANGED <<fast, small>>

BothValueExists(v) ==
    /\ eqRet' = <<Result(valueExists(fast, v), 0),
                  Result(valueExists(small, v), 0)>>
    /\ eqOp' = [name |-> "valueExists", arg |-> v]
    /\ UNCHANGED <<fast, small>>

InitEq ==
    /\ LrsIdle
    /\ OsIdle
    /\ MrgIdle
    /\ RstIdle
    /\ RshIdle
    /\ EqIdle
    /\ DiffIdle
    /\ DmpIdle

NextEq ==
    /\ \/ \E v \in Values : BothPushBack(v)
       \/ \E v \in Values : BothErase(v)
       \/ \E p \in 1..NumValues : BothErasePos(p)
       \/ BothSize
       \/ \E v \in Values : BothValueExists(v)
    /\ UNCHANGED <<lrsVars, osVars, mrgVars, rstVars, rshVars, diffVars,
                 dmpVars>>

SpecEq == InitEq /\ [][NextEq]_vars

\* C22: after the same calls of push_back, erase(value), erase(iterator),
\* size and valueExists, a FASTER set and a SMALLER set have returned the
\* same results and iterate the same values in the same order; the
\* companion set of the FASTER one holds exactly the values of its list.
C22_StrategiesAgree ==
    /\ eqRet[1] = eqRet[2]
    /\ fast.elements = small.elements
    /\ fast.uniqueElements = Range(fast.elements)
    /\ small.uniqueElements = {}
    /\ \A v \in Values : valueExists(fast, v) <=> valueExists(small, v)

\* 1 was erased through an iterator and pushed again: both sets took it and
\* hold it last.
C22_Witness ==
    /\ eqOp = [name |-> "push_back", arg |-> 1]
    /\ eqRet = <<Result(TRUE, 0), Result(TRUE, 0)>>
    /\ fast.elements = <<2, 3, 1>>
    /\ small.elements = <<2, 3, 1>>

Inserting == rpc = "insert" /\ rsIdx < Len(files)

OthersKept(rs, rs2, key) ==
    /\ DOMAIN rs2.recs = DOMAIN rs.recs
    /\ getCount(rs2) = getCount(rs)
    /\ \A k \in DOMAIN rs.recs \ {key} : rs2.recs[k] = rs.recs[k]

\* C23: make and add stop on a duplicate unless -f is given.  When the key
\* of the next file is present and the policy is stop, the insertion fails,
\* both stores are as they were and make ends at once with EXIT_FAILURE,
\* after which no store changes; with -f the data of the file replaces the
\* record, and the translation when there is a hash translation store, the
\* keys and the count are as before and the traversal goes on.
C23_Step ==
    /\ (Inserting /\ containsKey(merged_rs, NextKey) /\ stopOnDuplicate) =>
           /\ merged_rs' = merged_rs
           /\ hash_rs' = hash_rs
           /\ action = "MAKE" =>
                  (rpc' = "exit" /\ exitStatus' = "EXIT_FAILURE")
    /\ (Inserting /\ containsKey(merged_rs, NextKey) /\ ~stopOnDuplicate) =>
           /\ merged_rs'.recs[NextKey] = FileData(NextFile)
           /\ OthersKept(merged_rs, merged_rs', NextKey)
           /\ (hash_pathname # "" /\ containsKey(hash_rs, NextKey)) =>
                  /\ hash_rs'.recs[NextKey] = NextTranslation
                  /\ OthersKept(hash_rs, hash_rs', NextKey)
           /\ rsIdx' = rsIdx + 1
           /\ rpc' = "insert"
    /\ rpc = "exit" => (merged_rs' = merged_rs /\ hash_rs' = hash_rs)

C23_DuplicatePolicy ==
    /\ [](rpc = "insert" => (stopOnDuplicate <=> ~HasOpt("f")))
    /\ [][C23_Step]_vars

\* make -f has replaced the record of d/a by the file e/a of the same name
\* and gone on to add d/b.
C23_Witness ==
    /\ action = "MAKE"
    /\ ~stopOnDuplicate
    /\ rpc = "exit"
    /\ exitStatus = "EXIT_SUCCESS"
    /\ files = <<PathOf(Key(1)), OtherPathOf(Key(1)), PathOf(Key(2))>>
    /\ hash_pathname = ""
    /\ containsKey(merged_rs, Key(1))
    /\ merged_rs.recs[Key(1)] = FileData(OtherPathOf(Key(1)))
    /\ getCount(merged_rs) = 2

(***************************************************************************)
(* rstool diff (rstool.cpp, procargs_diff and diff).                       *)
(***************************************************************************)
NumDiffKeys == 2

DiffKeySet == {Key(n) : n \in 1..NumDiffKeys}

\* The data a record may have: under the first key two values of one
\* length with the same digest and one with another digest, under the other
\* keys two values of different lengths.
DiffValues(k) ==
    IF k = Key(1) THEN {<<1>>, <<1 + NumHashes>>, <<2>>}
    ELSE {<<1>>, <<1, 1>>}

DiffStoreChoices ==
    {[exists |-> TRUE, recs |-> f, count |-> Cardinality(DOMAIN f)] :
        f \in UNION {{g \in [ks -> UNION {DiffValues(k) : k \in ks}] :
                         \A k \in ks : g[k] \in DiffValues(k)} :
                     ks \in SUBSET DiffKeySet}}

\* The -s arguments tried, in their order on the command line; "X" names
\* no RecordStore.
DiffNameLists ==
    {<<>>, <<"A">>, <<"A", "B">>, <<"B", "A">>, <<"A", "B", "A">>,
     <<"A", "X">>}

\* The getopt loop of procargs_diff over the -s options.
RECURSIVE getopt_diff(_, _)
getopt_diff(names, st) ==
    IF names = <<>> THEN st
    ELSE IF Head(names) \notin {"A", "B"}
    THEN [st EXCEPT !.status = "EXIT_FAILURE"]
    ELSE getopt_diff(Tail(names),
             IF st.rsCount = 1
             THEN [st EXCEPT !.sourceRS = Head(names), !.rsCount = @ + 1]
             ELSE [st EXCEPT !.targetRS = Head(names), !.rsCount = @ + 1])

\* procargs_diff
procargs_diff(names) ==
    LET st == getopt_diff(names, [rsCount |-> 0, sourceRS |-> "",
                                  targetRS |-> "",
                                  status |-> "EXIT_SUCCESS"])
    IN  IF st.status = "EXIT_FAILURE" THEN st
        ELSE IF st.rsCount # 2 THEN [st EXCEPT !.status = "EXIT_FAILURE"]
        ELSE st

\* diff: the call of procargs_diff.
diff_procargs ==
    /\ diffPc = "start"
    /\ LET st == procargs_diff(diffS)
       IN  /\ sourceRS' = st.sourceRS
           /\ targetRS' = st.targetRS
           /\ IF st.status = "EXIT_FAILURE"
              THEN /\ diffStatus' = "EXIT_FAILURE"
                   /\ diffPc' = "exit"
                   /\ UNCHANGED diffKeys
              ELSE /\ diffKeys' = diffK
                   /\ diffPc' = "count"
                   /\ UNCHANGED diffStatus
    /\ UNCHANGED <<diffS, diffF, diffK, diffStores, diffIdx>>

\* diff: "Don't attempt diff if either RecordStore is empty", then "If no
\* keys passed, compare every key" of the source.
diff_collect ==
    /\ diffPc = "count"
    /\ IF getCount(diffStores[sourceRS]) = 0
          \/ getCount(diffStores[targetRS]) = 0
       THEN /\ diffStatus' = "EXIT_FAILURE"
            /\ diffPc' = "exit"
            /\ UNCHANGED diffKeys
       ELSE /\ diffKeys' = IF diffKeys = <<>>
                           THEN FullPass(diffStores[sourceRS], 0)
                           ELSE diffKeys
            /\ diffStatus' = "EXIT_SUCCESS"
            /\ diffPc' = "compare"
    /\ diffIdx' = 0
    /\ UNCHANGED <<diffS, diffF, diffK, diffStores, sourceRS, targetRS>>

\* One turn of the loop over the keys: whether the key differs.
Differs(src, tgt, key, byte_for_byte) ==
    LET sourceExists == containsKey(src, key)
        targetExists == containsKey(tgt, key)
    IN  IF ~sourceExists \/ ~targetExists THEN TRUE
        ELSE IF length(src, key) # length(tgt, key) THEN TRUE
        ELSE IF byte_for_byte
        THEN \E i \in 1..length(src, key) :
                 read(src, key)[i] # read(tgt, key)[i]
        ELSE digest(read(src, key)) # digest(read(tgt, key))

\* A variant of the loop body whose status is that of the last key.
diff_key_lastKeyDecides ==
    /\ diffPc = "compare"
    /\ diffIdx < Len(diffKeys)
    /\ diffStatus' = IF Differs(diffStores[sourceRS], diffStores[targetRS],
                                diffKeys[diffIdx + 1], diffF)
                     THEN "EXIT_FAILURE" ELSE "EXIT_SUCCESS"
    /\ diffIdx' = diffIdx + 1
    /\ UNCHANGED <<diffS, diffF, diffK, diffStores, sourceRS, targetRS,
                   diffKeys, diffPc>>

\* One turn of the loop over the keys: a difference sets the status to
\* EXIT_FAILURE, which stays.
diff_key ==
    /\ diffPc = "compare"
    /\ diffIdx < Len(diffKeys)
    /\ diffStatus' = IF Differs(diffStores[sourceRS], diffStores[targetRS],
                                diffKeys[diffIdx + 1], diffF)
                     THEN "EXIT_FAILURE" ELSE diffStatus
    /\ diffIdx' = diffIdx + 1
    /\ UNCHANGED <<diffS, diffF, diffK, diffStores, sourceRS, targetRS,
                   diffKeys, diffPc>>

\* return (status)
diff_return ==
    /\ diffPc = "compare"
    /\ diffIdx = Len(diffKeys)
    /\ diffPc' = "exit"
    /\ UNCHANGED <<diffS, diffF, diffK, diffStores, sourceRS, targetRS,
                   diffKeys, diffIdx, diffStatus>>

InitDiff ==
    /\ LrsIdle
    /\ OsIdle
    /\ MrgIdle
    /\ RstIdle
    /\ RshIdle
    /\ EqIdle
    /\ DmpIdle
    /\ diffS \in DiffNameLists
    /\ diffF \in BOOLEAN
    /\ diffK \in DistinctSeqs(DiffKeySet, 1)
    /\ diffStores \in [{"A", "B"} -> DiffStoreChoices]
    /\ sourceRS = ""
    /\ targetRS = ""
    /\ diffKeys = <<>>
    /\ diffIdx = 0
    /\ diffStatus = "none"
    /\ diffPc = "start"

NextDiff ==
    /\ \/ diff_procargs
       \/ diff_collect
       \/ diff_key
       \/ diff_return
    /\ UNCHANGED <<lrsVars, osVars, mrgVars, rstVars, rshVars, eqVars,
                 dmpVars>>

SpecDiff == InitDiff /\ [][NextDiff]_vars

\* C24: when procargs_diff succeeds there were exactly two -s options, and
\* the store of the first is the source, that of the second the target.
C24_FirstIsSource ==
    diffPc = "count" =>
        /\ Len(diffS) = 2
        /\ sourceRS = diffS[1]
        /\ targetRS = diffS[2]

\* The record of a key is in both stores with the same length and the same
\* bytes: compared byte for byte with -f, by their digests without.
Matches(src, tgt, key, byte_for_byte) ==
    /\ containsKey(src, key)
    /\ containsKey(tgt, key)
    /\ length(src, key) = length(tgt, key)
    /\ IF byte_for_byte THEN read(src, key) = read(tgt, key)
       ELSE digest(read(src, key)) = digest(read(tgt, key))

\* diff has returned after procargs_diff accepted the arguments, and no key
\* was named on the command line.
DiffOfAllKeys ==
    /\ diffPc = "exit"
    /\ procargs_diff(diffS).status = "EXIT_SUCCESS"
    /\ diffK = <<>>

AllSourceKeysMatch ==
    \A k \in DOMAIN diffStores[sourceRS].recs :
        Matches(diffStores[sourceRS], diffStores[targetRS], k, diffF)

\* C28 as stated: a diff without explicit keys succeeds iff every key of the
\* source is in the target with the same length and bytes.
C28_AllSourceKeys ==
    DiffOfAllKeys => (diffStatus = "EXIT_SUCCESS" <=> AllSourceKeysMatch)

\* C28: when the source or the target store is empty, diff fails without
\* comparing a key; otherwise a diff without explicit keys compares exactly
\* the keys of a sequence pass over the source, and succeeds iff every one
\* of them is in the target with the same length and bytes; keys that only
\* the target has are not compared.
C28_NonEmptyAllSourceKeys ==
    DiffOfAllKeys =>
        IF getCount(diffStores[sourceRS]) = 0
           \/ getCount(diffStores[targetRS]) = 0
        THEN diffStatus = "EXIT_FAILURE" /\ diffKeys = <<>>
        ELSE /\ diffKeys = FullPass(diffStores[sourceRS], 0)
             /\ diffIdx = Len(diffKeys)
             /\ diffStatus = "EXIT_SUCCESS" <=> AllSourceKeysMatch

\* A diff by digest has succeeded although the target has a key the source
\* lacks.
C28_Witness ==
    /\ DiffOfAllKeys
    /\ diffStatus = "EXIT_SUCCESS"
    /\ ~diffF
    /\ diffKeys = <<Key(1)>>
    /\ DOMAIN diffStores[targetRS].recs = {Key(1), Key(2)}

(***************************************************************************)
(* dmprecstor: dump of one record (-k), of a range of records (-r) or of   *)
(* every record of a RecordStore into an output directory.                 *)
(***************************************************************************)
NumDumpKeys == 4

DumpKeySet == {Key(n) : n \in 1..NumDumpKeys}

DumpValues == {<<>>, <<7>>}

DumpStoreChoices ==
    {NoStore} \cup
    {[exists |-> TRUE, recs |-> f, count |-> Cardinality(DOMAIN f)] :
        f \in UNION {[ks -> DumpValues] : ks \in SUBSET DumpKeySet}}

DASH == 45

Digit(n) == 48 + n

IsDigit(c) == c \in {Digit(n) : n \in 0..9}

\* The arguments of -r tried: none, "a-b" and a number alone.
RangeArgs ==
    {<<>>, <<Digit(1)>>} \cup
    {<<Digit(a), DASH, Digit(b)>> : a, b \in 0..(NumDumpKeys + 1)}

\* The arguments of -k tried: none, a key of the store, a key of no store.
KeyArgs == {<<>>, Key(1), Key(NumDumpKeys + 1)}

\* sscanf(optarg, "%u-%u", &uiMin, &uiMax) over one-digit numbers: the
\* number of conversions made and the values converted.
sscanf_range(text) ==
    IF Len(text) = 0 \/ ~IsDigit(text[1])
    THEN [n |-> 0, uiMin |-> 0, uiMax |-> 0]
    ELSE IF Len(text) = 3 /\ text[2] = DASH /\ IsDigit(text[3])
    THEN [n |-> 2, uiMin |-> text[1] - 48, uiMax |-> text[3] - 48]
    ELSE [n |-> 1, uiMin |-> text[1] - 48, uiMax |-> 0]

\* main up to the loop: the options (PrintUsage exits), the open of the
\* store, the dump of one record with -k, the checks of the range.
dmp_main ==
    /\ dmpPc = "start"
    /\ LET ropt == dmpRange # <<>>
           kopt == dmpKey # <<>>
           r == sscanf_range(dmpRange)
           usage == \/ ropt /\ r.n # 2
                    \/ ropt /\ (r.uiMin = 0 \/ r.uiMax = 0
                                \/ r.uiMin > r.uiMax)
                    \/ ropt /\ kopt
           uiTotalRecords == getCount(dmpStore)
       IN  IF usage \/ ~dmpStore.exists
           THEN /\ iRetCode' = "EXIT_FAILURE"
                /\ dmpPc' = "exit"
                /\ UNCHANGED <<uiFirst, uiLast, uiCurr, dumped, outputDir>>
           ELSE IF kopt
           THEN IF containsKey(dmpStore, dmpKey)
                THEN /\ dumped' = <<dmpKey>>
                     /\ outputDir' = [k \in {dmpKey} |->
                                         read(dmpStore, dmpKey)]
                     /\ iRetCode' = "EXIT_SUCCESS"
                     /\ dmpPc' = "exit"
                     /\ UNCHANGED <<uiFirst, uiLast, uiCurr>>
                ELSE /\ iRetCode' = "EXIT_FAILURE"
                     /\ dmpPc' = "exit"
                     /\ UNCHANGED <<uiFirst, uiLast, uiCurr, dumped,
                                    outputDir>>
           ELSE IF \/ uiTotalRecords = 0
                   \/ ropt /\ r.uiMin > uiTotalRecords
                   \/ ropt /\ r.uiMax > uiTotalRecords
           THEN /\ iRetCode' = "EXIT_FAILURE"
                /\ dmpPc' = "exit"
                /\ UNCHANGED <<uiFirst, uiLast, uiCurr, dumped, outputDir>>
           ELSE /\ uiFirst' = IF ropt THEN r.uiMin ELSE 1
                /\ uiLast' = IF ropt THEN r.uiMax ELSE uiTotalRecords
                /\ uiCurr' = 1
                /\ dmpPc' = "loop"
                /\ UNCHANGED <<dumped, outputDir, iRetCode>>
    /\ UNCHANGED <<dmpRange, dmpKey, dmpStore, dmpCursor>>

\* A variant of the loop body without the test of uiCurr against uiLast.
dmp_sequence_neverBreaks ==
    /\ dmpPc = "loop"
    /\ IF dmpCursor >= Cardinality(DOMAIN dmpStore.recs)
       THEN /\ iRetCode' = "EXIT_SUCCESS"
            /\ dmpPc' = "exit"
            /\ UNCHANGED <<uiCurr, dmpCursor, dumped, outputDir>>
       ELSE LET dKey == KeyAt(dmpStore, dmpCursor)
            IN  /\ dmpCursor' = dmpCursor + 1
                /\ IF uiCurr >= uiFirst
                   THEN /\ dumped' = Append(dumped, dKey)
                        /\ outputDir' =
                               [k \in DOMAIN outputDir \cup {dKey} |->
                                   IF k = dKey THEN read(dmpStore, dKey)
                                   ELSE outputDir[k]]
                   ELSE UNCHANGED <<dumped, outputDir>>
                /\ uiCurr' = uiCurr + 1
                /\ UNCHANGED <<iRetCode, dmpPc>>
    /\ UNCHANGED <<dmpRange, dmpKey, dmpStore, uiFirst, uiLast>>

\* One turn of the loop: rs->sequence gives the next key, or the loop ends
\* on ObjectDoesNotExist; from uiFirst on the record is written to the file
\* named after its key; the loop ends once uiCurr has passed uiLast.
dmp_sequence ==
    /\ dmpPc = "loop"
    /\ IF dmpCursor >= Cardinality(DOMAIN dmpStore.recs)
       THEN /\ iRetCode' = "EXIT_SUCCESS"
            /\ dmpPc' = "exit"
            /\ UNCHANGED <<uiCurr, dmpCursor, dumped, outputDir>>
       ELSE LET dKey == KeyAt(dmpStore, dmpCursor)
            IN  /\ dmpCursor' = dmpCursor + 1
                /\ IF uiCurr >= uiFirst
                   THEN /\ dumped' = Append(dumped, dKey)
                        /\ outputDir' =
                               [k \in DOMAIN outputDir \cup {dKey} |->
                                   IF k = dKey THEN read(dmpStore, dKey)
                                   ELSE outputDir[k]]
                   ELSE UNCHANGED <<dumped, outputDir>>
                /\ uiCurr' = uiCurr + 1
                /\ IF uiCurr + 1 > uiLast
                   THEN /\ iRetCode' = "EXIT_SUCCESS"
                        /\ dmpPc' = "exit"
                   ELSE UNCHANGED <<iRetCode, dmpPc>>
    /\ UNCHANGED <<dmpRange, dmpKey, dmpStore, uiFirst, uiLast>>

InitDmp ==
    /\ LrsIdle
    /\ OsIdle
    /\ MrgIdle
    /\ RstIdle
    /\ RshIdle
    /\ EqIdle
    /\ DiffIdle
    /\ dmpRange \in RangeArgs
    /\ dmpKey \in KeyArgs
    /\ dmpStore \in DumpStoreChoices
    /\ uiFirst = 0
    /\ uiLast = 0
    /\ uiCurr = 0
    /\ dmpCursor = 0
    /\ dumped = <<>>
    /\ outputDir = <<>>
    /\ iRetCode = "EXIT_FAILURE"
    /\ dmpPc = "start"

NextDmp ==
    /\ \/ dmp_main
       \/ dmp_sequence
    /\ UNCHANGED <<lrsVars, osVars, mrgVars, rstVars, rshVars, eqVars,
                   diffVars>>

SpecDmp == InitDmp /\ [][NextDmp]_vars

\* The files of the output directory are the records dumped.
DumpedFiles ==
    /\ DOMAIN outputDir = Range(dumped)
    /\ \A k \in Range(dumped) : outputDir[k] = read(dmpStore, k)

\* C25: with -r a-b and 1 <= a <= b <= count the records dumped are those
\* at the positions a..b of the sequence order, each once and in that
\* order, and the loop has called sequence b times when it ends; with
\* neither -r nor -k every record is dumped; with a or b above the count
\* nothing is dumped and the run fails.
C25_RangeDump ==
    LET r == sscanf_range(dmpRange)
        total == getCount(dmpStore)
        order == FullPass(dmpStore, 0)
    IN  /\ (/\ dmpKey = <<>> /\ r.n = 2
            /\ 1 <= r.uiMin /\ r.uiMin <= r.uiMax /\ r.uiMax <= total)
           => /\ IsPrefix(dumped, SubSeq(order, r.uiMin, r.uiMax))
              /\ dmpCursor <= r.uiMax
              /\ dmpPc = "exit"
                 => /\ dumped = SubSeq(order, r.uiMin, r.uiMax)
                    /\ dmpCursor = r.uiMax
                    /\ DumpedFiles
                    /\ iRetCode = "EXIT_SUCCESS"
        /\ (dmpKey = <<>> /\ dmpRange = <<>> /\ dmpPc = "exit")
           => /\ dumped = order
              /\ Len(dumped) = total
              /\ DumpedFiles
        /\ (r.n = 2 /\ (r.uiMin > total \/ r.uiMax > total))
           => /\ dumped = <<>>
              /\ outputDir = <<>>
              /\ dmpPc = "exit" => iRetCode = "EXIT_FAILURE"

C25_Witness ==
    /\ dmpPc = "exit"
    /\ dmpRange = <<Digit(2), DASH, Digit(3)>>
    /\ getCount(dmpStore) = 4
    /\ dumped = <<Key(2), Key(3)>>
    /\ dmpCursor = 3
    /\ iRetCode = "EXIT_SUCCESS"

(***************************************************************************)
(* The KeyList file written by writeListRecordStoreKeys, read back.        *)
(***************************************************************************)
\* A key that is not empty and holds no whitespace.
PlainKey(k) == k # <<>> /\ \A i \in 1..Len(k) : ~IsSpace(k[i])

\* C26: when writeListRecordStoreKeys has written a list of distinct keys
\* that are not empty and hold no whitespace, and has put the new file in
\* the place of the KeyList file, readListRecordStoreKeys gives the same
\* keys in the same order.
C26_Step ==
    (/\ pc = "rename" /\ pc' = "updateCount"
     /\ \A k \in Range(existingKeys.elements) : PlainKey(k))
    => /\ ListedKeys' = existingKeys.elements
       /\ NoRepeats(ListedKeys')

C26_RoundTrip == [][C26_Step]_vars

\* The new KeyList file of two keys has been renamed and reads back as
\* the two keys, the last included.
C26_Witness ==
    /\ pc = "updateCount"
    /\ Len(existingKeys.elements) = 2
    /\ \A k \in Range(existingKeys.elements) : PlainKey(k)
    /\ keyListFile.bytes = KeyListBytes(existingKeys.elements)
    /\ ListedKeys = existingKeys.elements

(***************************************************************************)
(* mergeAndHashRecordStores: what an abort leaves behind.                  *)
(***************************************************************************)
\* merge is about to call mergeAndHashRecordStores.
HashingMergeStarts ==
    /\ rpc = "start"
    /\ action = "MERGE"
    /\ procargs_merge(argv).status = "EXIT_SUCCESS"
    /\ procargs_merge(argv).kind \in DataKinds
    /\ procargs_merge(argv).hash_pathname # ""

\* mergeAndHashRecordStores ends with an exception.
HashingMergeAborts ==
    /\ action = "MERGE"
    /\ rpc \in {"open", "sequence"}
    /\ rpc' = "exit"
    /\ cerr'

\* C27: mergeAndHashRecordStores creates the merged store before the hash
\* translation store; when the creation of the latter fails the empty merged
\* store stays, and when the merge aborts later the merged store stays with
\* the records it had received.
C27_Step ==
    /\ (HashingMergeStarts /\ hash_rs.exists)
       => /\ merged_rs' = EmptyStore
          /\ created' = {"store"}
          /\ hash_rs' = hash_rs
          /\ rpc' = "exit"
          /\ cerr'
    /\ HashingMergeAborts
       => /\ merged_rs'.exists
          /\ merged_rs' = merged_rs
          /\ "store" \in created'

C27_NoRollback ==
    /\ [](action = "MERGE" /\ "hash" \in created
          => "store" \in created /\ merged_rs.exists)
    /\ [][C27_Step]_vars

\* A merge with hashing has aborted after records were merged: the merged
\* store holds them.
C27_Witness ==
    /\ action = "MERGE"
    /\ rpc = "exit"
    /\ cerr
    /\ created = {"store", "hash"}
    /\ merged_rs.exists
    /\ merged_rs.count >= 1
    /\ hash_rs.count = merged_rs.count

(***************************************************************************)
(* mrgrecstor -r: when the sources are removed.                            *)
(***************************************************************************)
\* Every record of the source is in the destination.
MergedInto(source, dest) ==
    \A k \in DOMAIN source.recs :
        containsKey(dest, k) /\ dest.recs[k] = source.recs[k]

\* The ways the merge ends with ERR_OUT before the sources are removed.
MergeAborts == {"declined", "open", "buffer", "duplicate"}

\* C29: a source is removed only with -r and only in the removal loop, which
\* is entered when every record of every listed source is in the
\* destination; a run that ended in the merge with an error never was in the
\* removal loop, so that it has removed no source.
C29_Removing ==
    mpc = "remove"
    => /\ bRemoveAfterMerge
       /\ errMsg = "none"
       /\ \A i \in (lineNo + 1)..Len(stores) :
              stores[i].exists /\ MergedInto(stores[i], rsout)

C29_Step ==
    /\ stores' # stores => (mpc = "remove" /\ rsout' = rsout)
    /\ (errMsg' \in MergeAborts) => (mpc # "remove" /\ stores' = stores)

ReadAllReturned == hCall.name = "readAll" /\ hRet.status = "ok"

\* C30: whatever the cursor was, readAll returns the keys of a pass from the
\* first record: every key of the store once, at most getCount() of them,
\* and with readData the data of each; a readAll that follows a readAll
\* returns the same keys.
C30_Step ==
    /\ hCall'.name = "readAll"
       => /\ hRet'.keys = FullPass(rsStore, 0)
          /\ Len(hRet'.keys) <= getCount(rsStore)
          /\ NoRepeats(hRet'.keys)
          /\ Range(hRet'.keys) = DOMAIN rsStore.recs
          /\ hCall'.mode = "readData"
             => /\ Len(hRet'.datas) = Len(hRet'.keys)
                /\ \A i \in 1..Len(hRet'.keys) :
                       hRet'.datas[i] = read(rsStore, hRet'.keys[i])
    /\ (ReadAllReturned /\ hCall'.name = "readAll")
       => hRet'.keys = hRet.keys

C30_ReadAll == [][C30_Step]_vars

\* readAll has returned the two keys of the store; the cursor of the store
\* is left behind the last record, where the next readAll finds it.
C30_Witness ==
    /\ binding = "R"
    /\ ReadAllReturned
    /\ Len(hRet.keys) = 2
    /\ hRet.keys = FullPass(rsStore, 0)
    /\ seqPos = 2

====
